---- MODULE Spec2Model ----
(***************************************************************************)
(* A model of dustycam's graph execution engine (dustycam/node.py,         *)
(* dustycam/frame.py, dustycam/runner.py) and of its pipeline lifecycle    *)
(* manager (dustycam/pipeline.py), with the file source of                 *)
(* dustycam/nodes/sources.                                                 *)
(*                                                                         *)
(* The specifications share the module's variables:                        *)
(*   SpecRun   Runner.run_once ticks over graphs built with Node.connect   *)
(*   SpecMulti Runner.run_once ticks over a graph with two sources         *)
(*   SpecTopo  Node.connect calls followed by Runner construction          *)
(*   SpecPipe  Pipeline.start/stop/update_settings called from two threads *)
(*   SpecSeq   the same methods called from one thread, one after another  *)
(*   SpecConf  a Pipeline's settings, state and settings file              *)
(*   SpecCopy  FramePacket.copy_shallow and appends to the packets' lists  *)
(*   SpecReload Runner.run_once ticks and Runner rebuilds over one graph  *)
(*   SpecFile  FileSource.next_packet calls over a directory of images     *)
(*   SpecBall  a BallYoloPipeline started and stopped from one thread      *)
(*   SpecFault Runner.run_once ticks in which one call raises              *)
(*   SpecClear Runner.run_once ticks, Runner rebuilds and cache clears     *)
(*   SpecLoad  Pipeline construction over any content of the settings file *)
(*   SpecBranch run_once ticks of examples/run_multi_stream.py, the        *)
(*             packets being objects the nodes modify                      *)
(***************************************************************************)
EXTENDS Integers, Sequences, FiniteSets, TLC

(***************************************************************************)
(* Bounds of the model.                                                    *)
(***************************************************************************)
MaxFrames == 2      \* frames a source emits before it is exhausted
MaxSinks == 2       \* registered sinks of a diamond graph

VARIABLES
    \* ---- Node objects (node.py) and the Runner built over them (runner.py)
    inputs,         \* Node._inputs : node -> sequence of nodes
    outputs,        \* Node._outputs : node -> sequence of nodes
    cache,          \* Node._cache : node -> (frame_id -> packet)
    sources,        \* Runner.sources
    sinks,          \* Runner.sinks
    graph,          \* Runner.graph (list(seen))
    order,          \* Runner.order
    \* ---- behaviour of the concrete nodes plugged into the graph
    shape,          \* which graph was built
    kind,           \* node -> "pass" | "mark" : what forward does
    dropOn,         \* node -> frame_ids on which forward returns drop_frame
    stream,         \* source -> packets it has still to produce
    failOn,         \* the call that raises: [call, node, frame_id], or NoFault
    raised,         \* the exception the last run_once ended with, or NotRaised
    \* ---- observation of the run
    consumed,       \* sink -> packets passed to consume, in call order
    fwdLog,         \* forward calls, in call order
    baseEdges,      \* edges of the graph before the arbitrary connect calls
    runner,         \* outcome of Runner(sources, sinks): "none" | "built" | "ValueError"
    collectPops,    \* iterations _collect_graph made in the last construction
    progressed,     \* what the last run_once returned
    ticks,          \* run_once calls so far
    emitted,        \* packets produced so far, in production order
    \* ---- a Pipeline object (pipeline.py)
    hasModel,       \* Pipeline.settings_model is given (pydantic settings)
    runLoop,        \* the subclass's run_loop: "loop" (while self.running) | "pass"
    settings,       \* Pipeline.settings : key -> value
    file,           \* content of Pipeline.settings_file : key -> value
    running,        \* Pipeline.running
    thread,         \* Pipeline._thread : a worker's index, or NoThread
    lock,           \* holder of Pipeline._lock, or NoOne
    workers,        \* the threading.Thread objects created by start, in order
    \* ---- the threads calling the Pipeline's methods
    pc,             \* caller -> where it is in the method it executes
    op,             \* caller -> the method it called: "start" | "stop" | "update"
    ret,            \* caller -> "top", or where in update_settings a nested call returns
    upd,            \* caller -> the key its update_settings call sets
    restart,        \* caller -> the restart argument of its update_settings call
    cur,            \* caller -> current_data of update_settings
    joinT,          \* caller -> the thread its stop call joins
    \* ---- observation of the calls
    noStart,        \* caller -> no start() has run concurrently with its stop()
    skipped,        \* caller -> its start() found the pipeline running
    nStarts,        \* caller -> start() invocations made within its call
    oldT,           \* caller -> Pipeline._thread when update_settings decided to restart
    applied,        \* keys set by the update_settings calls that have returned
    \* ---- the Pipeline's data: its state mapping and its settings storage
    state,          \* Pipeline.state : key -> value
    fresh,          \* settings of a second Pipeline of the same name, or NoInstance
    told,           \* what the update_settings calls so far told their callers
    \* ---- FramePacket objects and the list objects they refer to (frame.py)
    heap,           \* list object -> its elements
    pkts,           \* packet name -> FramePacket object (fields and list references)
    \* ---- a FileSource object (nodes/sources/__init__.py) and its caller's view
    fsrc,           \* the FileSource: _files, _idx, _frame_id, loop
    yielded,        \* what the next_packet calls returned, in call order
    \* ---- Pipeline.previews
    previews        \* preview name -> frame

graphVars == <<inputs, outputs, sources, sinks>>
runnerVars == <<graph, order, runner, collectPops>>
runVars == <<cache, shape, kind, dropOn, stream, failOn, raised, consumed, fwdLog,
             progressed, ticks, emitted>>

pipeVars == <<hasModel, runLoop, settings, file, running, thread, lock, workers>>
callVars == <<pc, op, ret, upd, restart, cur, joinT>>
obsVars == <<noStart, skipped, nStarts, oldT, applied>>
engineVars == <<graphVars, baseEdges, runnerVars, runVars>>
confVars == <<state, fresh, told>>
heapVars == <<heap, pkts>>
sourceVars == <<fsrc, yielded>>
auxVars == <<confVars, heapVars, sourceVars, previews>>

vars == <<engineVars, pipeVars, callVars, obsVars, auxVars>>

(***************************************************************************)
(* frame.py : FramePacket.  The image buffer is opaque to the engine and   *)
(* is left out; detections and regions_of_interest behave as ocr_results.  *)
(***************************************************************************)
FramePacket(fid, ts, drop) ==
    [frame_id |-> fid, timestamp |-> ts, ocr_results |-> <<>>, drop_frame |-> drop]

copy_shallow(p) ==
    [frame_id |-> p.frame_id, timestamp |-> p.timestamp,
     ocr_results |-> p.ocr_results, drop_frame |-> p.drop_frame]

\* Python's None where a packet is expected.
None == [frame_id |-> -1, timestamp |-> -1, ocr_results |-> <<>>, drop_frame |-> FALSE]

(***************************************************************************)
(* node.py : Node                                                          *)
(***************************************************************************)
Src == <<"Source", 1>>
NodeA == <<"A", 1>>
NodeB == <<"B", 1>>
Sink(i) == <<"Sink", i>>

EmptyDict == [k \in {} |-> None]

\* Node.__init__ for every node of a set: no edges, empty cache.
NewNodes(ns) == [ins |-> [n \in ns |-> <<>>], outs |-> [n \in ns |-> <<>>]]

connect_oneway(g, self, downstream) ==
    [ins |-> g.ins, outs |-> [g.outs EXCEPT ![self] = Append(@, downstream)],
     returns |-> downstream]

\* Node.connect: self._outputs.append(downstream); downstream._inputs.append(self);
\* return downstream
connect(g, self, downstream) ==
    LET outs == [g.outs EXCEPT ![self] = Append(@, downstream)]
        ins == [g.ins EXCEPT ![downstream] = Append(@, self)]
    IN [ins |-> ins, outs |-> outs, returns |-> downstream]

\* a sequence of connect calls, applied in order
RECURSIVE ConnectAll(_, _)
ConnectAll(g, edges) ==
    IF edges = <<>> THEN g
    ELSE ConnectAll(connect(g, Head(edges)[1], Head(edges)[2]), Tail(edges))

\* Node._get_from_cache: self._cache.get(frame_id)
_get_from_cache(c, node, frame_id) ==
    IF frame_id \in DOMAIN c[node] THEN c[node][frame_id] ELSE None

_set_cache_nostore(c, node, packet) == c

_set_cache_evict(c, node, packet) ==
    [c EXCEPT ![node] = [k \in {packet.frame_id} |-> packet]]

\* Node.clear_cache: self._cache.clear()
clear_cache(c, node) == [c EXCEPT ![node] = EmptyDict]

\* Runner.clear_caches: clear_cache on every node of the Runner's graph
RECURSIVE clear_caches(_, _)
clear_caches(c, g) ==
    IF g = <<>> THEN c ELSE clear_caches(clear_cache(c, Head(g)), Tail(g))

\* Node._set_cache: self._cache[packet.frame_id] = packet
_set_cache(c, node, packet) ==
    [c EXCEPT ![node] = [k \in (DOMAIN @) \cup {packet.frame_id} |->
                            IF k = packet.frame_id THEN packet ELSE @[k]]]

\* no call raises / run_once returned normally
NoFault == [call |-> "none", node |-> Src, frame_id |-> -1]
NotRaised == [call |-> "none", node |-> Src, frame_id |-> -1, source |-> 0, sink |-> 0]

\* the call `call` of `node` on a packet with `frame_id` raises
Fails(call, node, frame_id) ==
    failOn = [call |-> call, node |-> node, frame_id |-> frame_id]

\* the exception that call raises, before the loops of run_once it passes
\* through are known
Exception(call, node, frame_id) ==
    [call |-> call, node |-> node, frame_id |-> frame_id, source |-> 0, sink |-> 0]

\* A appends "x" and B appends "y" (tests/test_pipeline_dummy.py)
Marker(node) == IF node = NodeA THEN "x" ELSE "y"

\* Node.forward of the nodes plugged in: the test nodes of
\* tests/test_pipeline_dummy.py ("pass": return packet; "mark": append the
\* node's marker to a shallow copy), and a node that marks a shallow copy
\* as dropped for chosen frame_ids.
forward(node, packet) ==
    IF packet.frame_id \in dropOn[node]
    THEN [copy_shallow(packet) EXCEPT !.drop_frame = TRUE]
    ELSE IF kind[node] = "mark"
         THEN [copy_shallow(packet) EXCEPT !.ocr_results = Append(@, Marker(node))]
         ELSE packet

\* SourceNode.next_packet (DummySource): the next packet, or None when
\* exhausted; a call that raises produces nothing
next_packet(st, src) ==
    IF st.stream[src] = <<>> THEN [st |-> st, packet |-> None]
    ELSE IF Fails("next_packet", src, Head(st.stream[src]).frame_id)
    THEN [st |-> [st EXCEPT !.raised = Exception("next_packet", src,
                                                   Head(st.stream[src]).frame_id)],
          packet |-> None]
    ELSE [st |-> [st EXCEPT !.stream[src] = Tail(@),
                            !.emitted = Append(@, Head(st.stream[src]))],
          packet |-> Head(st.stream[src])]

consume_front(st, sink, packet) ==
    [st EXCEPT !.consumed[sink] = <<packet>> \o @]

\* SinkNode.consume (CollectSink): record the packet, unless the call raises
consume(st, sink, packet) ==
    IF Fails("consume", sink, packet.frame_id)
    THEN [st EXCEPT !.raised = Exception("consume", sink, packet.frame_id)]
    ELSE [st EXCEPT !.consumed[sink] = Append(@, packet)]

(***************************************************************************)
(* runner.py : Runner._eval_node_chain and Runner.run_once.  The running   *)
(* state st = [cache, stream, consumed, fwdLog, progressed, emitted,       *)
(* raised] is threaded through the calls in the order the code makes them; *)
(* an exception (st.raised) ends every call it passes through at once.     *)
(***************************************************************************)
RECURSIVE _eval_node_chain(_, _, _), EvalInputs(_, _, _, _)

EvalInputs_nodropcheck(node, i, packet, st) ==
    IF i > Len(inputs[node]) THEN [returned |-> FALSE, st |-> st, out |-> packet]
    ELSE LET r == _eval_node_chain(inputs[node][i], packet, st)
         IN EvalInputs(node, i + 1, r.out, r.st)

EvalInputs_samepacket(node, i, packet, st) ==
    IF i > Len(inputs[node]) THEN [returned |-> FALSE, st |-> st, out |-> packet]
    ELSE LET r == _eval_node_chain(inputs[node][i], packet, st)
         IN IF r.out.drop_frame
            THEN [returned |-> TRUE,
                  st |-> [r.st EXCEPT !.cache = _set_cache(@, node, r.out)],
                  out |-> r.out]
            ELSE EvalInputs(node, i + 1, packet, r.st)

EvalInputs_cachesinput(node, i, packet, st) ==
    IF i > Len(inputs[node]) THEN [returned |-> FALSE, st |-> st, out |-> packet]
    ELSE LET r == _eval_node_chain(inputs[node][i], packet, st)
         IN IF r.out.drop_frame
            THEN [returned |-> TRUE,
                  st |-> [r.st EXCEPT !.cache = _set_cache(@, node, packet)],
                  out |-> r.out]
            ELSE EvalInputs(node, i + 1, r.out, r.st)

EvalInputs_firstonly(node, i, packet, st) ==
    IF i > Len(inputs[node]) \/ i > 1 THEN [returned |-> FALSE, st |-> st, out |-> packet]
    ELSE LET r == _eval_node_chain(inputs[node][i], packet, st)
         IN IF r.out.drop_frame
            THEN [returned |-> TRUE,
                  st |-> [r.st EXCEPT !.cache = _set_cache(@, node, r.out)],
                  out |-> r.out]
            ELSE EvalInputs(node, i + 1, r.out, r.st)

EvalInputs_firstresult(node, i, packet, st) ==
    IF i > Len(inputs[node])
    THEN [returned |-> FALSE, st |-> st,
          out |-> IF inputs[node] = <<>> THEN packet
                  ELSE _get_from_cache(st.cache, inputs[node][1], packet.frame_id)]
    ELSE LET r == _eval_node_chain(inputs[node][i], packet, st)
         IN IF r.out.drop_frame
            THEN [returned |-> TRUE,
                  st |-> [r.st EXCEPT !.cache = _set_cache(@, node, r.out)],
                  out |-> r.out]
            ELSE EvalInputs(node, i + 1, r.out, r.st)

\* the loop "for inp in node._inputs" from its i-th input on: evaluates the
\* inputs in list order, handing each the result of the one before; on a
\* dropped result caches it at node and returns it (returned = TRUE).
EvalInputs(node, i, packet, st) ==
    IF i > Len(inputs[node]) THEN [returned |-> FALSE, st |-> st, out |-> packet]
    ELSE LET r == _eval_node_chain(inputs[node][i], packet, st)
         IN IF r.st.raised # NotRaised THEN [returned |-> TRUE, st |-> r.st, out |-> r.out]
            ELSE IF r.out.drop_frame
            THEN [returned |-> TRUE,
                  st |-> [r.st EXCEPT !.cache = _set_cache(@, node, r.out)],
                  out |-> r.out]
            ELSE EvalInputs(node, i + 1, r.out, r.st)

\* Runner._eval_node_chain: [st, out]
_eval_node_chain(node, packet, st) ==
    LET cached == _get_from_cache(st.cache, node, packet.frame_id)
    IN IF cached # None THEN [st |-> st, out |-> cached]
       ELSE LET r == EvalInputs(node, 1, packet, st)
            IN IF r.returned THEN [st |-> r.st, out |-> r.out]
               ELSE IF Fails("forward", node, r.out.frame_id)
               THEN [st |-> [r.st EXCEPT
                               !.raised = Exception("forward", node, r.out.frame_id)],
                     out |-> None]
               ELSE LET result == forward(node, r.out)
                    IN [st |-> [r.st EXCEPT
                                  !.fwdLog = Append(@, [node |-> node, packet |-> r.out,
                                                       result |-> result]),
                                  !.cache = _set_cache(@, node, result)],
                        out |-> result]

\* the loop "for sink in self.sinks" of run_once, from the j-th sink on
RECURSIVE SinkLoop(_, _, _)

SinkLoop_swallow(j, packet, st) ==
    IF j > Len(sinks) THEN st
    ELSE LET r == _eval_node_chain(sinks[j], packet, st)
         IN IF r.st.raised # NotRaised
            THEN SinkLoop(j + 1, packet, [r.st EXCEPT !.raised = NotRaised])
            ELSE IF r.out.drop_frame THEN SinkLoop(j + 1, packet, r.st)
            ELSE SinkLoop(j + 1, packet,
                          [consume(r.st, sinks[j], r.out) EXCEPT !.raised = NotRaised])

RECURSIVE EvalOrder(_, _, _)
EvalOrder(k, packet, st) ==
    IF k > Len(order) THEN st
    ELSE EvalOrder(k + 1, packet, _eval_node_chain(order[k], packet, st).st)

SinkLoop_eager(j, packet, st) ==
    IF j > Len(sinks) THEN EvalOrder(1, packet, st)
    ELSE LET r == _eval_node_chain(sinks[j], packet, st)
         IN IF r.st.raised # NotRaised THEN [r.st EXCEPT !.raised.sink = j]
            ELSE IF r.out.drop_frame THEN SinkLoop(j + 1, packet, r.st)
            ELSE LET c == consume(r.st, sinks[j], r.out)
                 IN IF c.raised # NotRaised THEN [c EXCEPT !.raised.sink = j]
                    ELSE SinkLoop(j + 1, packet, c)

SinkLoop(j, packet, st) ==
    IF j > Len(sinks) THEN st
    ELSE LET r == _eval_node_chain(sinks[j], packet, st)
         IN IF r.st.raised # NotRaised THEN [r.st EXCEPT !.raised.sink = j]
            ELSE IF r.out.drop_frame THEN SinkLoop(j + 1, packet, r.st)
            ELSE LET c == consume(r.st, sinks[j], r.out)
                 IN IF c.raised # NotRaised THEN [c EXCEPT !.raised.sink = j]
                    ELSE SinkLoop(j + 1, packet, c)

RECURSIVE SourceLoop(_, _)

SourceLoop_lastsource(i, st) ==
    IF i > Len(sources) THEN st
    ELSE LET np == next_packet(st, sources[i])
         IN IF np.packet = None THEN SourceLoop(i + 1, [np.st EXCEPT !.progressed = FALSE])
            ELSE LET st1 == [np.st EXCEPT !.progressed = TRUE]
                 IN IF np.packet.drop_frame THEN SourceLoop(i + 1, st1)
                    ELSE SourceLoop(i + 1, SinkLoop(1, np.packet, st1))

SourceLoop_nodropskip(i, st) ==
    IF i > Len(sources) THEN st
    ELSE LET np == next_packet(st, sources[i])
         IN IF np.packet = None THEN SourceLoop(i + 1, np.st)
            ELSE SourceLoop(i + 1, SinkLoop(1, np.packet, [np.st EXCEPT !.progressed = TRUE]))

SourceLoop_breakonnone(i, st) ==
    IF i > Len(sources) THEN st
    ELSE LET np == next_packet(st, sources[i])
         IN IF np.packet = None THEN np.st
            ELSE LET st1 == [np.st EXCEPT !.progressed = TRUE]
                 IN IF np.packet.drop_frame THEN SourceLoop(i + 1, st1)
                    ELSE SourceLoop(i + 1, SinkLoop(1, np.packet, st1))

\* the loop "for src in self.sources" of run_once, from the i-th source on
SourceLoop(i, st) ==
    IF i > Len(sources) THEN st
    ELSE LET np == next_packet(st, sources[i])
         IN IF np.st.raised # NotRaised THEN [np.st EXCEPT !.raised.source = i]
            ELSE IF np.packet = None THEN SourceLoop(i + 1, np.st)
            ELSE LET st1 == [np.st EXCEPT !.progressed = TRUE]
                 IN IF np.packet.drop_frame THEN SourceLoop(i + 1, st1)
                    ELSE LET st2 == SinkLoop(1, np.packet, st1)
                         IN IF st2.raised # NotRaised
                            THEN [st2 EXCEPT !.raised.source = i]
                            ELSE SourceLoop(i + 1, st2)

\* Runner.run_once: the state it leaves; st.progressed is what it returns
\* when st.raised = NotRaised
run_once(st) == SourceLoop(1, [st EXCEPT !.progressed = FALSE, !.raised = NotRaised])

(***************************************************************************)
(* runner.py : Runner construction                                         *)
(***************************************************************************)
\* Runner._collect_graph: the loop "while stack" from a given stack and seen
\* set; pops counts the iterations made
RECURSIVE CollectLoop(_, _, _, _)
CollectLoop(outs, stack, seen, pops) ==
    IF stack = <<>> THEN [seen |-> seen, pops |-> pops]
    ELSE LET n == stack[Len(stack)]
             rest == SubSeq(stack, 1, Len(stack) - 1)
         IN IF n \in seen THEN CollectLoop(outs, rest, seen, pops + 1)
            ELSE CollectLoop(outs, rest \o outs[n], seen \cup {n}, pops + 1)

_collect_graph(outs, roots) == CollectLoop(outs, roots, {}, 0)

\* Kahn's loop of Runner._toposort: [indegree, q, order] until q is empty
RECURSIVE DecLoop(_, _, _), KahnLoop(_, _, _, _)
DecLoop_enqueue_every(ms, indegree, q) ==
    IF ms = <<>> THEN [indegree |-> indegree, q |-> q]
    ELSE LET m == Head(ms)
             d == indegree[m] - 1
         IN DecLoop(Tail(ms), [indegree EXCEPT ![m] = d], Append(q, m))

\* the loop "for m in n._outputs" of _toposort
DecLoop(ms, indegree, q) ==
    IF ms = <<>> THEN [indegree |-> indegree, q |-> q]
    ELSE LET m == Head(ms)
             d == indegree[m] - 1
         IN DecLoop(Tail(ms), [indegree EXCEPT ![m] = d],
                    IF d = 0 THEN Append(q, m) ELSE q)

KahnLoop(outs, indegree, q, ord) ==
    IF q = <<>> THEN ord
    ELSE LET n == Head(q)
             r == DecLoop(outs[n], indegree, Tail(q))
         IN KahnLoop(outs, r.indegree, r.q, Append(ord, n))

SelectSeq0(s, indegree) == SelectSeq(s, LAMBDA n : indegree[n] = 0)

\* Runner._toposort over self.graph given as the list g: the order, or
\* <<"ValueError">> when len(order) != len(self.graph)
ValueError == <<<<"ValueError", 0>>>>

_toposort_nocheck(ins, outs, g) ==
    LET indegree == [n \in {g[k] : k \in DOMAIN g} |-> Len(ins[n])]
    IN KahnLoop(outs, indegree, SelectSeq0(g, indegree), <<>>)

_toposort_graphinputs(ins, outs, g) ==
    LET nodes == {g[k] : k \in DOMAIN g}
        indegree == [n \in nodes |-> Len(SelectSeq(ins[n], LAMBDA m : m \in nodes))]
        ord == KahnLoop(outs, indegree, SelectSeq0(g, indegree), <<>>)
    IN IF Len(ord) # Len(g) THEN ValueError ELSE ord

_toposort(ins, outs, g) ==
    LET indegree == [n \in {g[k] : k \in DOMAIN g} |-> Len(ins[n])]
        ord == KahnLoop(outs, indegree, SelectSeq0(g, indegree), <<>>)
    IN IF Len(ord) # Len(g) THEN ValueError ELSE ord

\* the lists a set can be turned into by list(seen)
Lists(S) == {f \in [1..Cardinality(S) -> S] : \A i, j \in DOMAIN f : f[i] = f[j] => i = j}

(***************************************************************************)
(* pipeline.py : Pipeline.  Every statement that reads or writes a field   *)
(* another thread can touch is a step of its own.  _save_settings writes   *)
(* the whole file in one step.                                             *)
(***************************************************************************)
MaxWorkers == 2       \* worker threads created in a behaviour

Callers == {"t1", "t2"}
Keys == {"k1", "k2"}
NoThread == 0
NoOne == "none"
\* the key each caller's update_settings sets
KeyOf(t) == IF t = "t1" THEN "k1" ELSE "k2"
Defaults == [k \in Keys |-> 0]

\* no Pipeline object: the values of its variables in the other specifications
NoPipeline ==
    /\ hasModel = FALSE /\ runLoop = "pass" /\ settings = Defaults /\ file = Defaults
    /\ running = FALSE /\ thread = NoThread /\ lock = NoOne /\ workers = <<>>
    /\ pc = [t \in Callers |-> "off"] /\ op = [t \in Callers |-> "none"]
    /\ ret = [t \in Callers |-> "top"] /\ upd = [t \in Callers |-> KeyOf(t)]
    /\ restart = [t \in Callers |-> FALSE] /\ cur = [t \in Callers |-> Defaults]
    /\ joinT = [t \in Callers |-> NoThread]
    /\ noStart = [t \in Callers |-> FALSE] /\ skipped = [t \in Callers |-> FALSE]
    /\ nStarts = [t \in Callers |-> 0] /\ oldT = [t \in Callers |-> NoThread]
    /\ applied = {}

\* no graph and no Runner: the values of their variables in SpecPipe and SpecSeq
NoGraph ==
    /\ inputs = <<>> /\ outputs = <<>> /\ sources = <<>> /\ sinks = <<>>
    /\ baseEdges = 0 /\ graph = <<>> /\ order = <<>> /\ runner = "none" /\ collectPops = 0
    /\ cache = <<>> /\ shape = "none" /\ kind = <<>> /\ dropOn = <<>> /\ stream = <<>>
    /\ consumed = <<>> /\ fwdLog = <<>> /\ progressed = FALSE /\ ticks = 0 /\ emitted = <<>>
    /\ failOn = NoFault /\ raised = NotRaised

\* no second Pipeline instance
NoInstance == <<"no instance">>

\* the Pipeline's data where a specification leaves it out
NoConf == state = <<>> /\ fresh = NoInstance /\ told = <<>>

\* no FramePacket objects
NoHeap == heap = <<>> /\ pkts = <<>>

\* no FileSource object
NoFileSource == fsrc = <<>> /\ yielded = <<>>

\* Pipeline.__init__: self.previews = {} (and the value where there is no Pipeline)
NoPreviews == previews = <<>>

\* Pipeline.__init__ (settings and file hold the defaults), called by `active`
InitPipeline(active) ==
    /\ hasModel \in BOOLEAN
    /\ runLoop \in {"loop", "pass"}
    /\ settings = Defaults /\ file = Defaults
    /\ running = FALSE /\ thread = NoThread /\ lock = NoOne /\ workers = <<>>
    /\ pc = [t \in Callers |-> IF t \in active THEN "idle" ELSE "off"]
    /\ op = [t \in Callers |-> "none"]
    /\ ret = [t \in Callers |-> "top"] /\ upd = [t \in Callers |-> KeyOf(t)]
    /\ restart = [t \in Callers |-> FALSE] /\ cur = [t \in Callers |-> Defaults]
    /\ joinT = [t \in Callers |-> NoThread]
    /\ noStart = [t \in Callers |-> FALSE] /\ skipped = [t \in Callers |-> FALSE]
    /\ nStarts = [t \in Callers |-> 0] /\ oldT = [t \in Callers |-> NoThread]
    /\ applied = {}
    /\ NoGraph /\ NoConf /\ NoHeap /\ NoFileSource /\ NoPreviews

InStart(t) == pc[t] \in {"start", "start_create", "start_start", "start_ret"}
InStop(t) == pc[t] \in {"stop", "stop_if", "stop_join", "stop_wait", "stop_clear", "stop_ret"}

\* t enters start(): a start now runs concurrently with every stop in progress
EnterStart(t) ==
    /\ noStart' = [u \in Callers |-> IF u # t /\ InStop(u) THEN FALSE ELSE noStart[u]]
    /\ nStarts' = [nStarts EXCEPT ![t] = @ + 1]

\* t enters stop()
EnterStop(t) ==
    noStart' = [noStart EXCEPT ![t] = \A u \in Callers \ {t} : ~InStart(u)]

\* the calls in progress that may still create a worker thread
Starters == {u \in Callers : op[u] = "start" \/ (op[u] = "update" /\ restart[u])}
CanStart == Len(workers) + Cardinality(Starters) < MaxWorkers

\* a thread calls start(), stop() or update_settings({KeyOf(t): 1}, restart)
Call(t) ==
    /\ pc[t] = "idle"
    /\ \/ /\ CanStart
          /\ op' = [op EXCEPT ![t] = "start"]
          /\ pc' = [pc EXCEPT ![t] = "start"]
          /\ EnterStart(t)
          /\ UNCHANGED restart
       \/ /\ op' = [op EXCEPT ![t] = "stop"]
          /\ pc' = [pc EXCEPT ![t] = "stop"]
          /\ EnterStop(t)
          /\ UNCHANGED <<restart, nStarts>>
       \/ \E r \in BOOLEAN :
             /\ r => CanStart
             /\ op' = [op EXCEPT ![t] = "update"]
             /\ pc' = [pc EXCEPT ![t] = "update"]
             /\ restart' = [restart EXCEPT ![t] = r]
             /\ UNCHANGED <<noStart, nStarts>>
    /\ UNCHANGED <<pipeVars, ret, upd, cur, joinT, skipped, oldT, applied>>
    /\ UNCHANGED <<engineVars, auxVars>>

\* the call's frame ends: its locals, and what was observed of it, are gone
Return(t) ==
    /\ pc' = [pc EXCEPT ![t] = "idle"]
    /\ op' = [op EXCEPT ![t] = "none"]
    /\ ret' = [ret EXCEPT ![t] = "top"]
    /\ restart' = [restart EXCEPT ![t] = FALSE]
    /\ cur' = [cur EXCEPT ![t] = Defaults]
    /\ joinT' = [joinT EXCEPT ![t] = NoThread]
    /\ noStart' = [noStart EXCEPT ![t] = FALSE]
    /\ skipped' = [skipped EXCEPT ![t] = FALSE]
    /\ nStarts' = [nStarts EXCEPT ![t] = 0]
    /\ oldT' = [oldT EXCEPT ![t] = NoThread]

\* a call ends by an exception that nothing in the Pipeline catches
Raise(t) == pc' = [pc EXCEPT ![t] = "raised"]

\* the exception leaves the Pipeline's methods, back to the calling code
Unwind(t) ==
    /\ pc[t] = "raised"
    /\ Return(t)
    /\ UNCHANGED <<pipeVars, upd, applied>>
    /\ UNCHANGED <<engineVars, auxVars>>

StartCheck_nocheck(t) ==
    /\ pc[t] = "start"
    /\ lock = NoOne
    /\ lock' = t
    /\ running' = TRUE
    /\ pc' = [pc EXCEPT ![t] = "start_create"]
    /\ UNCHANGED skipped
    /\ UNCHANGED <<hasModel, runLoop, settings, file, thread, workers>>
    /\ UNCHANGED <<op, ret, upd, restart, cur, joinT>>
    /\ UNCHANGED <<noStart, nStarts, oldT, applied>>
    /\ UNCHANGED <<engineVars, auxVars>>

\* start(): with self._lock: if self.running: return; self.running = True
StartCheck(t) ==
    /\ pc[t] = "start"
    /\ lock = NoOne
    /\ IF running
       THEN /\ pc' = [pc EXCEPT ![t] = "start_ret"]
            /\ skipped' = [skipped EXCEPT ![t] = TRUE]
            /\ UNCHANGED <<lock, running>>
       ELSE /\ lock' = t
            /\ running' = TRUE
            /\ pc' = [pc EXCEPT ![t] = "start_create"]
            /\ UNCHANGED skipped
    /\ UNCHANGED <<hasModel, runLoop, settings, file, thread, workers>>
    /\ UNCHANGED <<op, ret, upd, restart, cur, joinT>>
    /\ UNCHANGED <<noStart, nStarts, oldT, applied>>
    /\ UNCHANGED <<engineVars, auxVars>>

\* start(): self._thread = threading.Thread(target=self._worker, daemon=True)
StartCreate(t) ==
    /\ pc[t] = "start_create"
    /\ workers' = Append(workers, [pc |-> "new", raised |-> FALSE])
    /\ thread' = Len(workers) + 1
    /\ pc' = [pc EXCEPT ![t] = "start_start"]
    /\ UNCHANGED <<hasModel, runLoop, settings, file, running, lock>>
    /\ UNCHANGED <<op, ret, upd, restart, cur, joinT, obsVars>>
    /\ UNCHANGED <<engineVars, auxVars>>

\* start(): self._thread.start(), which raises AttributeError when a stop()
\* has set self._thread to None meanwhile; the with block releases the lock
StartStart(t) ==
    /\ pc[t] = "start_start"
    /\ lock' = NoOne
    /\ IF thread = NoThread
       THEN /\ Raise(t)
            /\ UNCHANGED workers
       ELSE /\ workers' = [workers EXCEPT ![thread].pc = "check"]
            /\ pc' = [pc EXCEPT ![t] = "start_ret"]
    /\ UNCHANGED <<hasModel, runLoop, settings, file, running, thread>>
    /\ UNCHANGED <<op, ret, upd, restart, cur, joinT, obsVars>>
    /\ UNCHANGED <<engineVars, auxVars>>

\* start() returns, to its caller or into update_settings, which returns too
StartRet(t) ==
    /\ pc[t] = "start_ret"
    /\ Return(t)
    /\ applied' = IF op[t] = "update" THEN applied \cup {upd[t]} ELSE applied
    /\ UNCHANGED <<pipeVars, upd>>
    /\ UNCHANGED <<engineVars, auxVars>>

\* stop(): with self._lock: self.running = False
StopSet(t) ==
    /\ pc[t] = "stop"
    /\ lock = NoOne
    /\ running' = FALSE
    /\ pc' = [pc EXCEPT ![t] = "stop_if"]
    /\ UNCHANGED <<hasModel, runLoop, settings, file, thread, lock, workers>>
    /\ UNCHANGED <<op, ret, upd, restart, cur, joinT, obsVars>>
    /\ UNCHANGED <<engineVars, auxVars>>

\* stop(): if self._thread:
StopIf(t) ==
    /\ pc[t] = "stop_if"
    /\ pc' = [pc EXCEPT ![t] = IF thread = NoThread THEN "stop_ret" ELSE "stop_join"]
    /\ UNCHANGED <<pipeVars, op, ret, upd, restart, cur, joinT, obsVars>>
    /\ UNCHANGED <<engineVars, auxVars>>

\* stop(): self._thread.join() reads self._thread again: AttributeError when
\* it is None by now, RuntimeError when that thread was not started yet
StopJoin(t) ==
    /\ pc[t] = "stop_join"
    /\ IF thread = NoThread \/ workers[thread].pc = "new"
       THEN /\ Raise(t)
            /\ UNCHANGED joinT
       ELSE /\ joinT' = [joinT EXCEPT ![t] = thread]
            /\ pc' = [pc EXCEPT ![t] = "stop_wait"]
    /\ UNCHANGED <<pipeVars, op, ret, upd, restart, cur, obsVars>>
    /\ UNCHANGED <<engineVars, auxVars>>

\* stop(): join() returns once the joined thread has ended
StopWait(t) ==
    /\ pc[t] = "stop_wait"
    /\ workers[joinT[t]].pc = "dead"
    /\ pc' = [pc EXCEPT ![t] = "stop_clear"]
    /\ UNCHANGED <<pipeVars, op, ret, upd, restart, cur, joinT, obsVars>>
    /\ UNCHANGED <<engineVars, auxVars>>

\* stop(): self._thread = None
StopClear(t) ==
    /\ pc[t] = "stop_clear"
    /\ thread' = NoThread
    /\ pc' = [pc EXCEPT ![t] = "stop_ret"]
    /\ UNCHANGED <<hasModel, runLoop, settings, file, running, lock, workers>>
    /\ UNCHANGED <<op, ret, upd, restart, cur, joinT, obsVars>>
    /\ UNCHANGED <<engineVars, auxVars>>

\* stop() returns, to its caller or into update_settings, which calls start()
StopRet(t) ==
    /\ pc[t] = "stop_ret"
    /\ IF ret[t] = "top"
       THEN /\ Return(t)
       ELSE /\ pc' = [pc EXCEPT ![t] = "start"]
            /\ ret' = [ret EXCEPT ![t] = "after_start"]
            /\ EnterStart(t)
            /\ UNCHANGED <<op, restart, cur, joinT, skipped, oldT>>
    /\ UNCHANGED <<pipeVars, upd, applied>>
    /\ UNCHANGED <<engineVars, auxVars>>

\* update_settings: current_data = self.settings.model_dump() with a settings
\* model; without one, self.settings.update(new_settings)
UpdateRead(t) ==
    /\ pc[t] = "update"
    /\ IF hasModel
       THEN /\ cur' = [cur EXCEPT ![t] = settings]
            /\ pc' = [pc EXCEPT ![t] = "update_assign"]
            /\ UNCHANGED settings
       ELSE /\ settings' = [settings EXCEPT ![upd[t]] = 1]
            /\ pc' = [pc EXCEPT ![t] = "update_save"]
            /\ UNCHANGED cur
    /\ UNCHANGED <<hasModel, runLoop, file, running, thread, lock, workers>>
    /\ UNCHANGED <<op, ret, upd, restart, joinT, obsVars>>
    /\ UNCHANGED <<engineVars, auxVars>>

\* update_settings: current_data.update(new_settings);
\* self.settings = self.settings_model.model_validate(current_data)
UpdateAssign(t) ==
    /\ pc[t] = "update_assign"
    /\ settings' = [cur[t] EXCEPT ![upd[t]] = 1]
    /\ pc' = [pc EXCEPT ![t] = "update_save"]
    /\ UNCHANGED <<hasModel, runLoop, file, running, thread, lock, workers>>
    /\ UNCHANGED <<op, ret, upd, restart, cur, joinT, obsVars>>
    /\ UNCHANGED <<engineVars, auxVars>>

\* update_settings: self._save_settings() writes self.settings to the file
UpdateSave(t) ==
    /\ pc[t] = "update_save"
    /\ file' = settings
    /\ pc' = [pc EXCEPT ![t] = "update_restart"]
    /\ UNCHANGED <<hasModel, runLoop, settings, running, thread, lock, workers>>
    /\ UNCHANGED <<op, ret, upd, restart, cur, joinT, obsVars>>
    /\ UNCHANGED <<engineVars, auxVars>>

UpdateRestart_always(t) ==
    /\ pc[t] = "update_restart"
    /\ IF restart[t]
       THEN /\ pc' = [pc EXCEPT ![t] = "stop"]
            /\ ret' = [ret EXCEPT ![t] = "after_stop"]
            /\ oldT' = [oldT EXCEPT ![t] = thread]
            /\ EnterStop(t)
       ELSE /\ pc' = [pc EXCEPT ![t] = "update_ret"]
            /\ UNCHANGED <<ret, oldT, noStart>>
    /\ UNCHANGED <<pipeVars, op, upd, restart, cur, joinT>>
    /\ UNCHANGED <<skipped, nStarts, applied>>
    /\ UNCHANGED <<engineVars, auxVars>>

\* update_settings: if restart and self.running: self.stop(); self.start()
UpdateRestart(t) ==
    /\ pc[t] = "update_restart"
    /\ IF restart[t] /\ running
       THEN /\ pc' = [pc EXCEPT ![t] = "stop"]
            /\ ret' = [ret EXCEPT ![t] = "after_stop"]
            /\ oldT' = [oldT EXCEPT ![t] = thread]
            /\ EnterStop(t)
       ELSE /\ pc' = [pc EXCEPT ![t] = "update_ret"]
            /\ UNCHANGED <<ret, oldT, noStart>>
    /\ UNCHANGED <<pipeVars, op, upd, restart, cur, joinT>>
    /\ UNCHANGED <<skipped, nStarts, applied>>
    /\ UNCHANGED <<engineVars, auxVars>>

\* update_settings returns without a restart
UpdateRet(t) ==
    /\ pc[t] = "update_ret"
    /\ Return(t)
    /\ applied' = applied \cup {upd[t]}
    /\ UNCHANGED <<pipeVars, upd>>
    /\ UNCHANGED <<engineVars, auxVars>>

(***************************************************************************)
(* pipeline.py : Pipeline._worker running the subclass's run_loop in the   *)
(* thread `w`.  run_loop is "while self.running: <iteration>" (the         *)
(* shipped pipelines), or returns at once (the test pipelines' "pass");    *)
(* an iteration reads self.settings and self.running as they are at that   *)
(* step and publishes previews and state, none of which the Pipeline reads.*)
(***************************************************************************)
Alive(w) == workers[w].pc \in {"check", "body"}

\* run_loop evaluates "while self.running", or returns at once
WorkerCheck(w) ==
    /\ workers[w].pc = "check"
    /\ workers' = [workers EXCEPT ![w].pc =
                      IF runLoop = "loop" /\ running THEN "body" ELSE "dead"]
    /\ UNCHANGED <<hasModel, runLoop, settings, file, running, thread, lock>>
    /\ UNCHANGED <<callVars, obsVars>>
    /\ UNCHANGED <<engineVars, auxVars>>

\* one iteration of run_loop
WorkerBody(w) ==
    /\ workers[w].pc = "body"
    /\ workers' = [workers EXCEPT ![w].pc = "check"]
    /\ UNCHANGED <<hasModel, runLoop, settings, file, running, thread, lock>>
    /\ UNCHANGED <<callVars, obsVars>>
    /\ UNCHANGED <<engineVars, auxVars>>

WorkerRaise_keeprunning(w) ==
    /\ workers[w].pc = "body"
    /\ workers' = [workers EXCEPT ![w].pc = "dead", ![w].raised = TRUE]
    /\ UNCHANGED <<hasModel, runLoop, settings, file, running, thread, lock>>
    /\ UNCHANGED <<callVars, obsVars>>
    /\ UNCHANGED <<engineVars, auxVars>>

\* an iteration raises: _worker prints the traceback and sets self.running = False
WorkerRaise(w) ==
    /\ workers[w].pc = "body"
    /\ workers' = [workers EXCEPT ![w].pc = "dead", ![w].raised = TRUE]
    /\ running' = FALSE
    /\ UNCHANGED <<hasModel, runLoop, settings, file, thread, lock>>
    /\ UNCHANGED <<callVars, obsVars>>
    /\ UNCHANGED <<engineVars, auxVars>>

NextPipe ==
    \/ \E t \in Callers :
          \/ Call(t) \/ Unwind(t)
          \/ (StartCheck(t) \/ StartCreate(t) \/ StartStart(t) \/ StartRet(t))
          \/ (StopSet(t) \/ StopIf(t) \/ StopJoin(t) \/ StopWait(t) \/ StopClear(t) \/ StopRet(t))
          \/ (UpdateRead(t) \/ UpdateAssign(t) \/ UpdateSave(t) \/ UpdateRestart(t) \/ UpdateRet(t))
    \/ \E w \in DOMAIN workers : WorkerCheck(w) \/ WorkerBody(w) \/ WorkerRaise(w)

\* two threads call the Pipeline's methods concurrently
SpecPipe == InitPipeline(Callers) /\ [][NextPipe]_vars

\* a single thread calls the Pipeline's methods, one after the other: no
\* call of it meets the half-done state that makes start or stop raise
SeqCaller == "t1"

NextSeq ==
    \/ Call(SeqCaller)
    \/ (StartCheck(SeqCaller) \/ StartCreate(SeqCaller) \/ StartStart(SeqCaller)
           \/ StartRet(SeqCaller))
    \/ (StopSet(SeqCaller) \/ StopIf(SeqCaller) \/ StopJoin(SeqCaller)
           \/ StopWait(SeqCaller) \/ StopClear(SeqCaller) \/ StopRet(SeqCaller))
    \/ (UpdateRead(SeqCaller) \/ UpdateAssign(SeqCaller) \/ UpdateSave(SeqCaller)
           \/ UpdateRestart(SeqCaller) \/ UpdateRet(SeqCaller))
    \/ \E w \in DOMAIN workers : WorkerCheck(w) \/ WorkerBody(w) \/ WorkerRaise(w)

SpecSeq == InitPipeline({SeqCaller}) /\ [][NextSeq]_vars

(***************************************************************************)
(* Claims about the Pipeline lifecycle (checked under SpecPipe, and under  *)
(* SpecSeq where the claim is about calls made one after the other)        *)
(***************************************************************************)
AliveWorkers == {w \in DOMAIN workers : Alive(w)}

\* C6: when a stop() that no start() has run concurrently with is about to
\* return, running is False and no worker thread is alive, so that no
\* further step of run_loop happens after the return.
C6_StopSynchronous ==
    \A t \in Callers :
        (pc[t] = "stop_ret" /\ noStart[t]) => (~running /\ AliveWorkers = {})

\* C7: at most one worker thread is executing run_loop at any time.
C7_AtMostOneWorker == Cardinality(AliveWorkers) <= 1

\* C8: no update is lost: once no update_settings call is in progress, the
\* settings in memory and the persisted file hold every key written by the
\* update_settings calls that have returned.
C8_NoLostUpdate ==
    (\A t \in Callers : op[t] # "update") =>
        \A k \in applied : settings[k] = 1 /\ file[k] = 1

\* the steps a caller takes inside a start() that finds the pipeline running
SkippingStep(t) ==
    /\ pc'[t] # pc[t]
    /\ \/ pc[t] = "start" /\ running
       \/ pc[t] = "start_ret" /\ skipped[t]

\* C9: a start() that finds the Pipeline running returns without creating a
\* thread and leaves running, _thread, the existing workers, the lock, the
\* settings and the file as they are.
C9_StartIdempotent ==
    [][\A t \in Callers : SkippingStep(t) =>
          /\ pc'[t] \in {"start_ret", "idle"}
          /\ running' = running /\ thread' = thread /\ workers' = workers
          /\ lock' = lock
          /\ settings' = settings /\ file' = file]_vars

\* a start() is returning after it found the pipeline running, its one
\* worker still in run_loop
C9_Witness ==
    \E t \in Callers :
        /\ pc[t] = "start_ret" /\ skipped[t] /\ op[t] = "start"
        /\ running /\ Len(workers) = 1 /\ thread = 1 /\ Alive(1)

\* update_settings(new, restart) called by t: what holds where it returns,
\* stillRunning being what the claim says of the running flag after a restart
UpdateContract(t, stillRunning) ==
    /\ (op[t] = "update" /\ pc[t] = "start_ret") =>
          /\ settings[upd[t]] = 1 /\ file = settings
          /\ oldT[t] # NoThread /\ workers[oldT[t]].pc = "dead"
          /\ nStarts[t] = 1
          /\ thread \notin {NoThread, oldT[t]}
          /\ stillRunning
    /\ (op[t] = "update" /\ pc[t] = "update_ret") =>
          /\ settings[upd[t]] = 1 /\ file = settings
          /\ nStarts[t] = 0
          /\ restart[t] => ~running
    /\ (op[t] = "update" /\ oldT[t] # NoThread /\ thread \notin {NoThread, oldT[t]}) =>
          settings[upd[t]] = 1 /\ file[upd[t]] = 1

Raises(w) == ~workers[w].raised /\ workers'[w].raised

\* C14: when run_loop raises, the worker ends and running is False; the run
\* that failed is never resumed and no worker appears but by a start() that
\* a caller made; running stays False until such a start(), and a start()
\* made while running is False creates a new worker and starts it.
C14_WorkerFailureFatal ==
    /\ []((thread # NoThread /\ workers[thread].raised
               /\ \A t \in Callers : pc[t] # "start_create") => ~running)
    /\ [][/\ \A w \in DOMAIN workers :
               /\ Raises(w) => (workers'[w].pc = "dead" /\ ~running' /\ thread' = thread
                                  /\ Len(workers') = Len(workers))
               /\ workers[w].raised => workers'[w] = workers[w]
          /\ Len(workers') # Len(workers)
                => \E t \in Callers : pc[t] = "start_create" /\ pc'[t] = "start_start"
          /\ (~running /\ running')
                => \E t \in Callers : pc[t] = "start" /\ pc'[t] = "start_create"
          /\ \A t \in Callers :
               /\ (pc[t] = "start" /\ pc'[t] # "start" /\ ~running)
                     => (pc'[t] = "start_create" /\ running')
               /\ (pc[t] = "start_create" /\ pc'[t] # "start_create")
                     => (Len(workers') = Len(workers) + 1 /\ thread' = Len(workers')
                         /\ ~workers'[thread'].raised)
               /\ (pc[t] = "start_start" /\ pc'[t] # "start_start")
                     => (thread # NoThread /\ thread' = thread
                         /\ workers'[thread].pc = "check")]_vars

\* the first worker's run_loop raised and a later start() has launched a
\* second worker, which is running
C14_Witness ==
    /\ Len(workers) = 2 /\ workers[1].raised /\ workers[1].pc = "dead"
    /\ thread = 2 /\ Alive(2) /\ running

\* C29: whenever running is True, outside the steps of start() between
\* setting the flag and starting the thread, a live worker thread is
\* executing run_loop.
C29_RunningHasWorker ==
    (running /\ \A t \in Callers : pc[t] \notin {"start_create", "start_start"})
        => AliveWorkers # {}

\* C30: no stop() call ends by an error, whatever stop() and start() calls
\* of other threads it is interleaved with.
C30_StopNeverRaises ==
    \A t \in Callers : op[t] = "stop" => pc[t] # "raised"

(***************************************************************************)
(* The graphs the run is checked on, each built by Node.connect calls.     *)
(***************************************************************************)
\* tests/test_pipeline_dummy.py: src.connect(a).connect(b).connect(sink)
ChainEdges == << <<Src, NodeA>>, <<NodeA, NodeB>>, <<NodeB, Sink(1)>> >>

\* Source -> {A, B} -> Sink(1..k); sink i is connected A first when ab[i]
RECURSIVE DiamondSinkEdges(_, _, _)
DiamondSinkEdges(i, k, ab) ==
    IF i > k THEN <<>>
    ELSE (IF ab[i] THEN << <<NodeA, Sink(i)>>, <<NodeB, Sink(i)>> >>
                   ELSE << <<NodeB, Sink(i)>>, <<NodeA, Sink(i)>> >>)
         \o DiamondSinkEdges(i + 1, k, ab)

DiamondEdges(k, ab) == << <<Src, NodeA>>, <<Src, NodeB>> >> \o DiamondSinkEdges(1, k, ab)

\* examples/run_multi_stream.py: the source feeds a raw sink directly and a
\* processed sink through two nodes
FanOutEdges == << <<Src, Sink(1)>>, <<Src, NodeA>>, <<NodeA, NodeB>>, <<NodeB, Sink(2)>> >>

SinkList(k) == [i \in 1..k |-> Sink(i)]

Plans ==
    {[shape |-> "chain", edges |-> ChainEdges, sources |-> <<Src>>, sinks |-> SinkList(1)]}
    \cup {[shape |-> "fanout", edges |-> FanOutEdges, sources |-> <<Src>>, sinks |-> SinkList(2)]}
    \cup {[shape |-> "diamond", edges |-> DiamondEdges(k, ab), sources |-> <<Src>>,
           sinks |-> SinkList(k)] : k \in 1..MaxSinks, ab \in [1..MaxSinks -> BOOLEAN]}

NodesOf(plan) ==
    {plan.edges[i][1] : i \in DOMAIN plan.edges} \cup {plan.edges[i][2] : i \in DOMAIN plan.edges}
    \cup {plan.sources[i] : i \in DOMAIN plan.sources} \cup {plan.sinks[i] : i \in DOMAIN plan.sinks}

\* what a source produces: n packets, the i-th with frame_id i-1 (DummySource's
\* counter), except that the packet at position dup (if any) repeats frame_id 0
\* and the packet at position pre (if any) is produced already marked dropped
Stream(n, dup, pre) ==
    [i \in 1..n |-> FramePacket(IF i = dup THEN 0 ELSE i - 1, i, i = pre)]

Streams == {Stream(n, dup, pre) : n \in 0..MaxFrames,
                                  dup \in {0} \cup 2..MaxFrames, pre \in 0..MaxFrames}

FrameIds == 0..(MaxFrames - 1)

RECURSIVE SeqOf(_)
SeqOf(S) == IF S = {} THEN <<>>
            ELSE LET x == CHOOSE x \in S : TRUE IN <<x>> \o SeqOf(S \ {x})

Range(s) == {s[i] : i \in DOMAIN s}

(***************************************************************************)
(* SpecRun: a graph is built, a Runner is constructed over it, and         *)
(* run_once is called until it returns False (while runner.run_once()).    *)
(***************************************************************************)
InitRun ==
    \E plan \in Plans :
      LET ns == NodesOf(plan)
          g == ConnectAll(NewNodes(ns), plan.edges)
          seen == _collect_graph(g.outs, plan.sources).seen
      IN /\ inputs = g.ins
         /\ outputs = g.outs
         /\ cache = [n \in ns |-> EmptyDict]
         /\ sources = plan.sources
         /\ sinks = plan.sinks
         /\ graph = SeqOf(seen)
         /\ order = _toposort(g.ins, g.outs, graph)
         /\ baseEdges = Len(plan.edges)
         /\ runner = "built"
         /\ collectPops = _collect_graph(g.outs, plan.sources).pops
         /\ shape = plan.shape
         /\ kind = [n \in ns |-> IF n \in {NodeA, NodeB} THEN "mark" ELSE "pass"]
         /\ \E d1 \in ns, d2 \in ns, D \in SUBSET FrameIds :
               dropOn = [n \in ns |-> IF n \in {d1, d2} THEN D ELSE {}]
         /\ stream \in [Range(plan.sources) -> Streams]
         /\ failOn = NoFault /\ raised = NotRaised
         /\ consumed = [n \in Range(plan.sinks) |-> <<>>]
         /\ fwdLog = <<>>
         /\ progressed = TRUE
         /\ ticks = 0
         /\ emitted = <<>>
         /\ NoPipeline /\ NoConf /\ NoHeap /\ NoFileSource /\ NoPreviews

RunState == [cache |-> cache, stream |-> stream, consumed |-> consumed,
             fwdLog |-> fwdLog, progressed |-> progressed, emitted |-> emitted,
             raised |-> raised]

\* one iteration of "while runner.run_once(): pass"; an exception ends the loop
RunOnce ==
    /\ runner = "built"
    /\ progressed
    /\ raised = NotRaised
    /\ LET st == run_once(RunState)
       IN /\ cache' = st.cache
          /\ stream' = st.stream
          /\ consumed' = st.consumed
          /\ fwdLog' = st.fwdLog
          /\ progressed' = st.progressed
          /\ emitted' = st.emitted
          /\ raised' = st.raised
    /\ ticks' = ticks + 1
    /\ UNCHANGED <<graphVars, baseEdges, runnerVars, shape, kind, dropOn, failOn>>
    /\ UNCHANGED <<pipeVars, callVars, obsVars, auxVars>>

NextRun == RunOnce

SpecRun == InitRun /\ [][NextRun]_vars

(***************************************************************************)
(* SpecMulti: a Runner over two sources, each feeding its own sink through *)
(* one node; run_once is called until it returns False.                    *)
(***************************************************************************)
Src2 == <<"Source", 2>>

TwoSourceEdges ==
    << <<Src, NodeA>>, <<NodeA, Sink(1)>>, <<Src2, NodeB>>, <<NodeB, Sink(2)>> >>

TwoSourcePlan ==
    [shape |-> "twosource", edges |-> TwoSourceEdges, sources |-> <<Src, Src2>>,
     sinks |-> SinkList(2)]

\* a sink fed by A, by B and by the second source, in this order
FanInEdges ==
    << <<Src, NodeA>>, <<Src, NodeB>>, <<NodeA, Sink(1)>>, <<NodeB, Sink(1)>>,
       <<Src2, Sink(1)>> >>

FanInPlan ==
    [shape |-> "fanin", edges |-> FanInEdges, sources |-> <<Src, Src2>>, sinks |-> SinkList(1)]

InitMulti ==
  \E plan \in {TwoSourcePlan, FanInPlan} :
    LET ns == NodesOf(plan)
        g == ConnectAll(NewNodes(ns), plan.edges)
        seen == _collect_graph(g.outs, plan.sources).seen
    IN /\ inputs = g.ins
       /\ outputs = g.outs
       /\ cache = [n \in ns |-> EmptyDict]
       /\ sources = plan.sources
       /\ sinks = plan.sinks
       /\ graph = SeqOf(seen)
       /\ order = _toposort(g.ins, g.outs, graph)
       /\ baseEdges = Len(plan.edges)
       /\ runner = "built"
       /\ collectPops = _collect_graph(g.outs, plan.sources).pops
       /\ shape = plan.shape
       /\ kind = [n \in ns |-> IF n \in {NodeA, NodeB} THEN "mark" ELSE "pass"]
       /\ \E d \in {NodeA, NodeB}, D \in SUBSET FrameIds :
             dropOn = [n \in ns |-> IF n = d THEN D ELSE {}]
       /\ stream \in [Range(plan.sources) -> Streams]
       /\ failOn = NoFault /\ raised = NotRaised
       /\ consumed = [n \in Range(plan.sinks) |-> <<>>]
       /\ fwdLog = <<>>
       /\ progressed = TRUE
       /\ ticks = 0
       /\ emitted = <<>>
       /\ NoPipeline /\ NoConf /\ NoHeap /\ NoFileSource /\ NoPreviews

SpecMulti == InitMulti /\ [][NextRun]_vars

(***************************************************************************)
(* Claims about Runner.run_once (checked under SpecRun, and under          *)
(* SpecMulti where the claim is about several sources)                     *)
(***************************************************************************)
\* how often node.forward was invoked for frame_id f
ForwardCount(node, f) ==
    Cardinality({i \in DOMAIN fwdLog : fwdLog[i].node = node /\ fwdLog[i].packet.frame_id = f})

EmittedIds == {emitted[i].frame_id : i \in DOMAIN emitted}
\* the frame_ids whose chain the sinks requested: produced not already dropped
RequestedIds == {emitted[i].frame_id : i \in {j \in DOMAIN emitted : ~emitted[j].drop_frame}}
DistinctIds == \A i, j \in DOMAIN emitted : emitted[i].frame_id = emitted[j].frame_id => i = j

RECURSIVE Ancestors(_)
Ancestors(n) == Range(inputs[n]) \cup UNION {Ancestors(m) : m \in Range(inputs[n])}
RECURSIVE Descendants(_)
Descendants(n) == Range(outputs[n]) \cup UNION {Descendants(m) : m \in Range(outputs[n])}

\* no node of the graph drops frame_id f
NeverDropped(f) == \A n \in DOMAIN dropOn : f \notin dropOn[n]

\* C1 as stated: in a diamond Source -> {A, B} -> sinks whose source emits
\* distinct frame_ids, A.forward and B.forward have each been invoked exactly
\* once for every frame_id whose chain the sinks have requested, whatever the
\* number of sinks.
C1_ExactlyOncePerFrame ==
    (shape = "diamond" /\ DistinctIds) =>
        \A f \in RequestedIds : ForwardCount(NodeA, f) = 1 /\ ForwardCount(NodeB, f) = 1

\* C1 amended: A.forward and B.forward are each invoked at most once per
\* frame_id whatever the number of sinks, never for a frame_id the sinks did
\* not request, and exactly once for every requested frame_id that no node of
\* the graph marks as dropped.
C1_AtMostOnceAndOnceIfNotDropped ==
    (shape = "diamond" /\ DistinctIds) =>
        /\ \A f \in FrameIds : ForwardCount(NodeA, f) <= 1 /\ ForwardCount(NodeB, f) <= 1
        /\ \A f \in FrameIds \ RequestedIds :
              ForwardCount(NodeA, f) = 0 /\ ForwardCount(NodeB, f) = 0
        /\ \A f \in RequestedIds : NeverDropped(f) =>
              ForwardCount(NodeA, f) = 1 /\ ForwardCount(NodeB, f) = 1

\* two sinks have requested the chains of two frames and A and B ran once for each
C1_Witness ==
    /\ shape = "diamond" /\ DistinctIds
    /\ Len(sinks) >= 2
    /\ Len(emitted) >= 2
    /\ RequestedIds = EmittedIds
    /\ \A f \in EmittedIds : NeverDropped(f) /\ ForwardCount(NodeA, f) = 1
                                             /\ ForwardCount(NodeB, f) = 1
    /\ \A k \in DOMAIN sinks : Len(consumed[sinks[k]]) >= 2

\* node n's forward has returned a dropped packet for frame_id f
DroppedAt(n, f) ==
    \E i \in DOMAIN fwdLog : /\ fwdLog[i].node = n
                             /\ fwdLog[i].packet.frame_id = f
                             /\ fwdLog[i].result.drop_frame

\* C4: when a node in a sink's upstream chain (the sink included) has returned
\* a dropped packet for a frame_id, the sink's consume has not been called for
\* that frame_id and no node downstream of the drop point has been asked to
\* forward that frame, in that tick or in any later one.
C4_DropPropagation ==
    \A k \in DOMAIN sinks : \A n \in Ancestors(sinks[k]) \cup {sinks[k]} : \A f \in FrameIds :
        DroppedAt(n, f) =>
            /\ \A i \in DOMAIN consumed[sinks[k]] : consumed[sinks[k]][i].frame_id # f
            /\ \A m \in Descendants(n) : ForwardCount(m, f) = 0

\* a node above a sink dropped a frame that was evaluated, the sink consumed
\* another frame, and the run went on after the drop
C4_Witness ==
    \E k \in DOMAIN sinks : \E n \in Ancestors(sinks[k]) : \E f \in FrameIds :
        /\ DroppedAt(n, f)
        /\ Descendants(n) # {}
        /\ Len(consumed[sinks[k]]) >= 1
        /\ \E i \in DOMAIN emitted : emitted[i].frame_id = f /\ i < Len(emitted)

\* the stream the source of a single-source graph was created with
FullStream == emitted \o stream[Src]

\* the scenario of the lifecycle test: Source -> A -> B -> Sink, the source
\* emitting n frames with distinct ids and then None, no node dropping
ChainScenario ==
    /\ shape = "chain"
    /\ \A n \in DOMAIN dropOn : dropOn[n] = {}
    /\ FullStream = Stream(Len(FullStream), 0, 0)

\* C5: in the chain scenario the sink has consumed one packet per produced
\* frame, in production order, each carrying A's marker then B's; the loop
\* "while run_once()" ends after the tick that finds the source exhausted,
\* with exactly n packets consumed.
C5_ChainLifecycle ==
    ChainScenario =>
        /\ Len(consumed[Sink(1)]) = Len(emitted)
        /\ \A i \in DOMAIN emitted :
              /\ consumed[Sink(1)][i].frame_id = emitted[i].frame_id
              /\ consumed[Sink(1)][i].timestamp = emitted[i].timestamp
              /\ consumed[Sink(1)][i].ocr_results = <<"x", "y">>
        /\ ticks <= Len(FullStream) + 1
        /\ ~progressed => /\ ticks = Len(FullStream) + 1
                          /\ Len(consumed[Sink(1)]) = Len(FullStream)
        /\ progressed => ticks = Len(emitted)

\* the test's run: two frames, the loop has ended, [["x","y"],["x","y"]] recorded
C5_Witness ==
    /\ ChainScenario
    /\ ~progressed
    /\ Len(FullStream) = 2
    /\ [i \in 1..2 |-> consumed[Sink(1)][i].ocr_results] = << <<"x", "y">>, <<"x", "y">> >>

\* C15: run_once returns True if and only if at least one of the registered
\* sources returned a packet in that tick, and False exactly when every one
\* of them returned None.
C15_ProgressIffSomePacket ==
    [][RunOnce => /\ progressed' <=> (\E s \in Range(sources) : stream[s] # <<>>)
                  /\ progressed' <=> (Len(emitted') > Len(emitted))
                  /\ ~progressed' <=> (\A s \in Range(sources) : stream'[s] = stream[s])]_vars

\* the first tick of a Runner over two sources returned True: the first
\* source, which has more to give, returned the one packet of this tick and
\* the second, being exhausted, returned None
C15_Witness ==
    /\ Len(sources) = 2 /\ ticks = 1 /\ progressed
    /\ Len(emitted) = 1 /\ stream[Src] # <<>> /\ stream[Src2] = <<>>

\* C23: whenever forward was invoked on a node for a frame, forward had
\* been invoked before on every one of the node's inputs for that frame_id,
\* and each of them holds a cached result for it.
C23_DependencyOrder ==
    \A i \in DOMAIN fwdLog :
        \A m \in Range(inputs[fwdLog[i].node]) :
            /\ \E j \in 1..(i - 1) :
                  fwdLog[j].node = m /\ fwdLog[j].packet.frame_id = fwdLog[i].packet.frame_id
            /\ fwdLog[i].packet.frame_id \in DOMAIN cache[m]

\* forward was invoked on a node with two inputs that share an input, after
\* three forward calls or more
C23_Witness ==
    /\ \E i \in DOMAIN fwdLog :
          \E a, b \in Range(inputs[fwdLog[i].node]) :
             a # b /\ Range(inputs[a]) \cap Range(inputs[b]) # {}
    /\ Len(fwdLog) >= 4

\* the source has emitted strictly increasing frame_ids
IncreasingIds ==
    \A i, j \in DOMAIN emitted : i < j => emitted[i].frame_id < emitted[j].frame_id

Consumed(k) == consumed[sinks[k]]

\* C27: every packet a sink's consume receives derives from the packet the
\* source produced in that tick iteration, also when the source repeats a
\* frame_id: a sink never receives the result of one emission (told by its
\* timestamp) twice or after that of a later one, and the emission a
\* consumed packet derives from was forwarded by the sink and every node
\* above it.
C27_ConsumedFromCurrentPacket ==
    \A k \in DOMAIN sinks :
        /\ \A i, j \in DOMAIN Consumed(k) :
              i < j => Consumed(k)[i].timestamp < Consumed(k)[j].timestamp
        /\ \A i \in DOMAIN Consumed(k) : \A n \in Ancestors(sinks[k]) \cup {sinks[k]} :
              \E j \in DOMAIN fwdLog : /\ fwdLog[j].node = n
                                       /\ fwdLog[j].packet.timestamp = Consumed(k)[i].timestamp

\* node n's i-th input holds a dropped packet for frame_id f
InputDropped(n, i, f) ==
    /\ f \in DOMAIN cache[inputs[n][i]]
    /\ cache[inputs[n][i]][f].drop_frame

\* the first input of n, in list order, that holds a dropped packet for f
FirstDropped(n, f) ==
    inputs[n][CHOOSE i \in DOMAIN inputs[n] :
                 /\ InputDropped(n, i, f)
                 /\ \A j \in 1..(i - 1) : ~InputDropped(n, j, f)]

\* C28: a node whose evaluation for a frame_id met an input that yielded a
\* dropped packet holds that dropped packet in its cache under the frame_id,
\* and its forward has not been called for the frame_id, however often the
\* node was evaluated for it; an input that has no other output than the
\* node yields a dropped packet only in an evaluation of the node.
C28_DropShortCircuit ==
    \A n \in DOMAIN inputs : \A f \in FrameIds :
        /\ (f \in DOMAIN cache[n] /\ \E i \in DOMAIN inputs[n] : InputDropped(n, i, f)) =>
              /\ cache[n][f] = cache[FirstDropped(n, f)][f]
              /\ ForwardCount(n, f) = 0
        /\ \A i \in DOMAIN inputs[n] :
              (InputDropped(n, i, f) /\ outputs[inputs[n][i]] = <<n>>) => f \in DOMAIN cache[n]

\* a node between a dropping node and the sink was evaluated twice for the
\* dropped frame_id, which the source emitted twice
C28_Witness ==
    \E n \in DOMAIN inputs : \E f \in FrameIds :
        /\ inputs[n] # <<>> /\ outputs[n] # <<>>
        /\ InputDropped(n, 1, f)
        /\ f \in DOMAIN cache[n]
        /\ Cardinality({i \in DOMAIN emitted : emitted[i].frame_id = f /\ ~emitted[i].drop_frame}) = 2
        /\ ForwardCount(n, f) = 0

(***************************************************************************)
(* SpecReload: as SpecRun, and a new Runner is constructed over the same   *)
(* nodes at any time, the run going on with the new Runner.                *)
(***************************************************************************)
\* Runner(sources, sinks) over the nodes as they are: __init__ collects the
\* graph and sorts it and touches no node's _cache; ticks counts the
\* run_once calls made on the Runner constructed last
Reconstruct ==
    /\ runner = "built"
    /\ LET c == _collect_graph(outputs, sources)
           g == SeqOf(c.seen)
           ord == _toposort(inputs, outputs, g)
       IN /\ graph' = g
          /\ order' = ord
          /\ collectPops' = c.pops
          /\ runner' = IF ord = ValueError THEN "ValueError" ELSE "built"
    /\ ticks' = 0
    /\ progressed' = TRUE
    /\ UNCHANGED <<inputs, outputs, cache, sources, sinks, baseEdges>>
    /\ UNCHANGED <<shape, kind, dropOn, stream, failOn, raised, consumed, fwdLog, emitted>>
    /\ UNCHANGED <<pipeVars, callVars, obsVars, auxVars>>

NextReload == RunOnce \/ Reconstruct

SpecReload == InitRun /\ [][NextReload]_vars

\* C22: right after a Runner is constructed, before its first run_once,
\* every node of its graph has an empty cache, whatever was evaluated on
\* the nodes before.
C22_CacheScopedToRunner ==
    (runner = "built" /\ ticks = 0) => \A n \in Range(graph) : cache[n] = EmptyDict

(***************************************************************************)
(* SpecClear: ticks and new Runners as in SpecReload, and clear_cache is   *)
(* called on a node or clear_caches on the Runner at any time between.     *)
(***************************************************************************)
clearFrame == <<graphVars, baseEdges, runnerVars, shape, kind, dropOn, stream, failOn, raised,
                consumed, fwdLog, progressed, ticks, emitted>>

\* node.clear_cache()
ClearCache(node) ==
    /\ runner = "built"
    /\ cache' = clear_cache(cache, node)
    /\ UNCHANGED clearFrame
    /\ UNCHANGED <<pipeVars, callVars, obsVars, auxVars>>

\* runner.clear_caches()
ClearCaches ==
    /\ runner = "built"
    /\ cache' = clear_caches(cache, graph)
    /\ UNCHANGED clearFrame
    /\ UNCHANGED <<pipeVars, callVars, obsVars, auxVars>>

NextClear ==
    \/ RunOnce
    \/ Reconstruct
    \/ ClearCaches
    \/ \E n \in DOMAIN cache : ClearCache(n)

\* the chain and the fan-out graph, with nodes that drop nothing
InitClear ==
    /\ InitRun
    /\ shape \in {"chain", "fanout"}
    /\ \A n \in DOMAIN dropOn : dropOn[n] = {}

SpecClear == InitClear /\ [][NextClear]_vars

\* some node's cache has lost a key
KeyRemoved == \E n \in DOMAIN cache : ~(DOMAIN cache[n] \subseteq DOMAIN cache'[n])

\* C39: run_once removes no cache entry: every key a node's cache held
\* before the tick it holds after it, and it holds the frame_id of every
\* forward call the tick made on the node; a key is removed by clear_cache
\* or clear_caches only (not by the construction of a new Runner), and
\* these leave the caches they clear empty.
C39_CacheOnlyGrows ==
    [][/\ RunOnce =>
            /\ ~KeyRemoved
            /\ \A i \in (Len(fwdLog) + 1)..Len(fwdLog') :
                  fwdLog'[i].packet.frame_id \in DOMAIN cache'[fwdLog'[i].node]
       /\ KeyRemoved => (ClearCaches \/ \E n \in DOMAIN cache : ClearCache(n))
       /\ ClearCaches => \A n \in Range(graph) : cache'[n] = EmptyDict
       /\ \A n \in DOMAIN cache :
             ClearCache(n) => cache'[n] = EmptyDict
                              /\ \A m \in DOMAIN cache \ {n} : cache'[m] = cache[m]]_vars

\* the source's cache was cleared after the first tick: it holds the
\* second frame_id alone, and A's cache holds both
C39_Witness ==
    /\ ticks = 2
    /\ ForwardCount(Src, 0) = 1 /\ ForwardCount(Src, 1) = 1
    /\ DOMAIN cache[Src] = {1}
    /\ DOMAIN cache[NodeA] = {0, 1}

\* C33: a tick whose source produces a packet already marked drop_frame
\* calls no forward and no consume and leaves every node cache as it was,
\* and run_once returns True.  (Said of the graphs with one source: the
\* packet is the only one the tick pulls.)
C33_PreDroppedPacketSkipped ==
    [][(Len(sources) = 1 /\ stream[sources[1]] # <<>>
          /\ Head(stream[sources[1]]).drop_frame) =>
            /\ emitted' = Append(emitted, Head(stream[sources[1]]))
            /\ fwdLog' = fwdLog
            /\ consumed' = consumed
            /\ cache' = cache
            /\ progressed']_vars

\* the second packet of the source came marked dropped, after a first that
\* went through the graph, and the loop goes on
C33_Witness ==
    /\ Len(emitted) = 2 /\ emitted[2].drop_frame /\ ~emitted[1].drop_frame
    /\ ticks = 2 /\ progressed
    /\ fwdLog # <<>>
    /\ \E k \in DOMAIN sinks : Len(consumed[sinks[k]]) = 1

\* position in the forward log of the call on node for frame_id f (0: none)
ForwardAt(node, f) ==
    IF ForwardCount(node, f) = 0 THEN 0
    ELSE CHOOSE i \in DOMAIN fwdLog :
            fwdLog[i].node = node /\ fwdLog[i].packet.frame_id = f

\* C34: for a node with several inputs, the packet passed to its forward is
\* the result of evaluating its last-listed input; its inputs were evaluated
\* in list order; an input that has no inputs of its own is passed the
\* result of the input listed before it; the result of an earlier input is
\* cached at that input and is not what the node is passed (the sink fed by
\* A, B and the second source is passed B's result, which has B's marker and
\* not A's).
C34_FanInLastInput ==
    \A k \in DOMAIN fwdLog :
        LET n == fwdLog[k].node
            f == fwdLog[k].packet.frame_id
            ins == inputs[n]
        IN Len(ins) > 1 =>
             /\ fwdLog[k].packet = _get_from_cache(cache, ins[Len(ins)], f)
             /\ \A i \in 1..(Len(ins) - 1) :
                   /\ f \in DOMAIN cache[ins[i]]
                   /\ ForwardAt(ins[i], f) < ForwardAt(ins[i + 1], f)
                   /\ inputs[ins[i + 1]] = <<>> =>
                         fwdLog[ForwardAt(ins[i + 1], f)].packet
                             = _get_from_cache(cache, ins[i], f)
             /\ (shape = "fanin" /\ n = Sink(1)) =>
                   /\ fwdLog[k].packet.ocr_results = <<Marker(NodeB)>>
                   /\ _get_from_cache(cache, NodeA, f).ocr_results = <<Marker(NodeA)>>

\* the sink with three inputs was passed a packet
C34_Witness ==
    /\ shape = "fanin"
    /\ \E k \in DOMAIN fwdLog :
          /\ fwdLog[k].node = Sink(1)
          /\ ForwardCount(Src2, fwdLog[k].packet.frame_id) = 1
          /\ ForwardCount(NodeA, fwdLog[k].packet.frame_id) = 1
    /\ consumed[Sink(1)] # <<>>

\* the packets the sources from the i-th on have next, in registration order
RECURSIVE PulledFrom(_)
PulledFrom(i) ==
    IF i > Len(sources) THEN <<>>
    ELSE (IF stream[sources[i]] = <<>> THEN <<>> ELSE <<Head(stream[sources[i]])>>)
         \o PulledFrom(i + 1)

\* C37: each run_once pulls exactly one packet from every registered source
\* that has one, in registration order, whether or not an earlier source was
\* exhausted or produced a dropped packet; every packet pulled that is not
\* already dropped is evaluated for every sink in that tick, and consumed by
\* every sink whose chain does not drop it.
C37_EverySourcePulled ==
    [][RunOnce =>
        /\ \A i \in DOMAIN sources :
              stream'[sources[i]] = IF stream[sources[i]] = <<>> THEN <<>>
                                    ELSE Tail(stream[sources[i]])
        /\ emitted' = emitted \o PulledFrom(1)
        /\ \A k \in DOMAIN sinks :
              LET fed == {i \in DOMAIN PulledFrom(1) : ~PulledFrom(1)[i].drop_frame}
              IN /\ \A i \in fed : PulledFrom(1)[i].frame_id \in DOMAIN cache'[sinks[k]]
                 /\ Len(consumed'[sinks[k]]) = Len(consumed[sinks[k]])
                       + Cardinality({i \in fed :
                             ~cache'[sinks[k]][PulledFrom(1)[i].frame_id].drop_frame})]_vars

\* in the first tick the first source produced a dropped packet, and the
\* second source's packet reached both sinks
C37_Witness ==
    /\ shape = "twosource" /\ ticks = 1
    /\ Len(emitted) = 2 /\ emitted[1].drop_frame /\ ~emitted[2].drop_frame
    /\ Len(consumed[Sink(1)]) = 1 /\ Len(consumed[Sink(2)]) = 1

(***************************************************************************)
(* SpecFault: run_once ticks over the two-source graph, the fan-out graph  *)
(* and a graph with a branch no sink asks for, where one call              *)
(* (next_packet, forward or consume of one node on one frame_id) raises.   *)
(***************************************************************************)
\* Source -> A -> Sink(1), and Source -> B with nothing behind B
SpurEdges == << <<Src, NodeA>>, <<NodeA, Sink(1)>>, <<Src, NodeB>> >>

FaultPlans ==
    {TwoSourcePlan,
     [shape |-> "fanout", edges |-> FanOutEdges, sources |-> <<Src>>, sinks |-> SinkList(2)],
     [shape |-> "spur", edges |-> SpurEdges, sources |-> <<Src>>, sinks |-> SinkList(1)]}

\* the calls of a plan's nodes that can raise
Faults(plan) ==
    {NoFault}
    \cup {[call |-> "next_packet", node |-> n, frame_id |-> f] :
             n \in Range(plan.sources), f \in FrameIds}
    \cup {[call |-> "forward", node |-> n, frame_id |-> f] : n \in NodesOf(plan), f \in FrameIds}
    \cup {[call |-> "consume", node |-> n, frame_id |-> f] :
             n \in Range(plan.sinks), f \in FrameIds}

InitFault ==
    \E plan \in FaultPlans :
      LET ns == NodesOf(plan)
          g == ConnectAll(NewNodes(ns), plan.edges)
          seen == _collect_graph(g.outs, plan.sources).seen
      IN /\ inputs = g.ins
         /\ outputs = g.outs
         /\ cache = [n \in ns |-> EmptyDict]
         /\ sources = plan.sources
         /\ sinks = plan.sinks
         /\ graph = SeqOf(seen)
         /\ order = _toposort(g.ins, g.outs, graph)
         /\ baseEdges = Len(plan.edges)
         /\ runner = "built"
         /\ collectPops = _collect_graph(g.outs, plan.sources).pops
         /\ shape = plan.shape
         /\ kind = [n \in ns |-> IF n \in {NodeA, NodeB} THEN "mark" ELSE "pass"]
         /\ dropOn = [n \in ns |-> {}]
         /\ stream \in [Range(plan.sources) -> Streams]
         /\ failOn \in Faults(plan)
         /\ raised = NotRaised
         /\ consumed = [n \in Range(plan.sinks) |-> <<>>]
         /\ fwdLog = <<>>
         /\ progressed = TRUE
         /\ ticks = 0
         /\ emitted = <<>>
         /\ NoPipeline /\ NoConf /\ NoHeap /\ NoFileSource /\ NoPreviews

SpecFault == InitFault /\ [][NextRun]_vars

\* the sinks and their ancestors: the nodes a tick evaluates
SinkChains == Range(sinks) \cup UNION {Ancestors(sinks[k]) : k \in DOMAIN sinks}

\* the exception reached the caller of run_once: once a frame_id the sinks
\* asked for has gone through a tick, a forward or consume that fails on it
\* (no node of these graphs drops a frame) has ended run_once with its
\* exception; and run_once reports no progress only with every source exhausted
ReachedCaller ==
    /\ \A f \in RequestedIds : \A n \in SinkChains :
          /\ Fails("forward", n, f) =>
                (raised.call = "forward" /\ raised.node = n /\ raised.frame_id = f)
          /\ (Fails("consume", n, f) /\ n \in Range(sinks)) =>
                (raised.call = "consume" /\ raised.node = n /\ raised.frame_id = f)
    /\ (raised = NotRaised /\ ~progressed) =>
          \A i \in DOMAIN sources : stream[sources[i]] = <<>>
    /\ raised.call = "next_packet" =>
          /\ stream[raised.node] # <<>>
          /\ Fails("next_packet", raised.node, Head(stream[raised.node]).frame_id)

\* the nodes evaluated before the failure keep their entries: the ancestors
\* of a node whose forward failed, the chain of a sink whose consume failed,
\* and the chains of the sinks served before
KeptBefore ==
    /\ raised.call = "forward" =>
          \A m \in Ancestors(raised.node) : raised.frame_id \in DOMAIN cache[m]
    /\ raised.call = "consume" =>
          \A m \in Ancestors(raised.node) \cup {raised.node} :
              raised.frame_id \in DOMAIN cache[m]
    /\ raised.call \in {"forward", "consume"} =>
          \A j \in 1..(raised.sink - 1) :
              \A m \in Ancestors(sinks[j]) \cup {sinks[j]} :
                  raised.frame_id \in DOMAIN cache[m]

\* the tick that raised pulled no later source, and served no later sink
\* with the packet it failed on
RestNotProcessed ==
    raised' # NotRaised =>
        /\ \A i \in (raised'.source + 1)..Len(sources) :
              stream'[sources[i]] = stream[sources[i]]
        /\ raised'.call # "next_packet" =>
              \A j \in (raised'.sink + 1)..Len(sinks) :
                  /\ raised'.frame_id \notin DOMAIN cache'[sinks[j]]
                  /\ \A i \in DOMAIN consumed'[sinks[j]] :
                        consumed'[sinks[j]][i].frame_id # raised'.frame_id

\* C32 as stated: an exception raised by next_packet, forward or consume
\* reaches the caller of run_once; the failing node, be it a node whose
\* forward or a sink whose consume raised, has no cache entry for that
\* frame_id; the nodes evaluated before keep theirs; the remaining sinks and
\* sources are not processed in that tick.
C32_FailurePropagates ==
    /\ [](/\ ReachedCaller
          /\ KeptBefore
          /\ raised.call \in {"forward", "consume"} =>
                raised.frame_id \notin DOMAIN cache[raised.node])
    /\ [][RestNotProcessed]_vars

\* C32 amended: as stated, except that the failing node has no cache entry
\* for the frame_id when the call that raised is its forward; neither has
\* any node behind it.  (A sink whose consume raised holds the entry its
\* forward made.)
C32_FailurePropagatesForwardUncached ==
    /\ [](/\ ReachedCaller
          /\ KeptBefore
          /\ raised.call = "forward" =>
                \A m \in Descendants(raised.node) \cup {raised.node} :
                    raised.frame_id \notin DOMAIN cache[m])
    /\ [][RestNotProcessed]_vars

\* the second sink's chain failed in forward on the second source's side
\* after the first sink was served, in the second tick
C32_Witness ==
    /\ shape = "twosource" /\ ticks = 2
    /\ raised.call = "forward" /\ raised.node = NodeB /\ raised.sink = 2 /\ raised.source = 1
    /\ raised.frame_id \in DOMAIN cache[Src2]
    /\ Len(consumed[Sink(1)]) = 2
    /\ stream[Src2] # <<>>

\* C36: a node reachable from the sources that is neither a sink nor an
\* ancestor of a sink never has forward called, and its cache stays empty,
\* over any sequence of ticks.
C36_UnrequestedNeverEvaluated ==
    \A n \in Range(graph) \ SinkChains :
        /\ cache[n] = EmptyDict
        /\ \A i \in DOMAIN fwdLog : fwdLog[i].node # n

\* two ticks went through the graph whose node B no sink asks for
C36_Witness ==
    /\ shape = "spur" /\ NodeB \in Range(graph) \ SinkChains
    /\ ticks = 2 /\ Len(consumed[Sink(1)]) = 2
    /\ Cardinality(DOMAIN cache[NodeA]) = 2

(***************************************************************************)
(* SpecTopo: nodes are connected by arbitrary Node.connect calls and a     *)
(* Runner is constructed over declared sources and sinks, any number of    *)
(* times.                                                                  *)
(***************************************************************************)
MaxEdges == 2       \* connect calls made on top of the base graph

TopoNodes == {<<"n", i>> : i \in 1..4}

\* the variables of a run, for a graph no run_once is called on
NoRun ==
    /\ cache = [n \in TopoNodes |-> EmptyDict]
    /\ shape = "any"
    /\ kind = [n \in TopoNodes |-> "pass"]
    /\ dropOn = [n \in TopoNodes |-> {}]
    /\ stream = <<>>
    /\ failOn = NoFault /\ raised = NotRaised
    /\ consumed = <<>>
    /\ fwdLog = <<>>
    /\ progressed = FALSE
    /\ ticks = 0
    /\ emitted = <<>>

\* graphs already built when the arbitrary connect calls start: none, and
\* the diamond n1 -> {n2, n3} -> n4
BaseEdges ==
    {<<>>,
     << <<(<<"n", 1>>), (<<"n", 2>>)>>, <<(<<"n", 1>>), (<<"n", 3>>)>>,
        <<(<<"n", 2>>), (<<"n", 4>>)>>, <<(<<"n", 3>>), (<<"n", 4>>)>> >>}

InitTopo ==
    /\ \E base \in BaseEdges :
         LET g == ConnectAll(NewNodes(TopoNodes), base)
         IN inputs = g.ins /\ outputs = g.outs /\ baseEdges = Len(base)
    /\ sources \in {<< <<"n", 1>> >>, << <<"n", 1>>, <<"n", 2>> >>}
    /\ sinks = << <<"n", 4>> >>
    /\ graph = <<>>
    /\ order = <<>>
    /\ runner = "none"
    /\ collectPops = 0
    /\ NoRun
    /\ NoPipeline /\ NoConf /\ NoHeap /\ NoFileSource /\ NoPreviews

NumEdges == LET RECURSIVE Sum(_)
                Sum(S) == IF S = {} THEN 0
                          ELSE LET n == CHOOSE n \in S : TRUE
                               IN Len(outputs[n]) + Sum(S \ {n})
            IN Sum(DOMAIN outputs)

\* self.connect(downstream), before any Runner is constructed
Connect(self, downstream) ==
    /\ runner = "none"
    /\ NumEdges < baseEdges + MaxEdges
    /\ LET g == connect([ins |-> inputs, outs |-> outputs], self, downstream)
       IN inputs' = g.ins /\ outputs' = g.outs
    /\ UNCHANGED <<sources, sinks, baseEdges, runnerVars, runVars>>
    /\ UNCHANGED <<pipeVars, callVars, obsVars, auxVars>>

\* Runner(sources, sinks): self.graph = list(seen) in some order, self.order =
\* self._toposort(); when that raises ValueError no Runner exists
Construct ==
    LET c == _collect_graph(outputs, sources)
    IN \E g \in Lists(c.seen) :
         LET ord == _toposort(inputs, outputs, g)
         IN /\ graph' = IF ord = ValueError THEN <<>> ELSE g
            /\ order' = IF ord = ValueError THEN <<>> ELSE ord
            /\ runner' = IF ord = ValueError THEN "ValueError" ELSE "built"
            /\ collectPops' = c.pops
            /\ UNCHANGED <<graphVars, baseEdges, runVars>>
            /\ UNCHANGED <<pipeVars, callVars, obsVars, auxVars>>

NextTopo == (\E a, d \in TopoNodes : Connect(a, d)) \/ Construct

SpecTopo == InitTopo /\ [][NextTopo]_vars

(***************************************************************************)
(* Claims about Runner construction (checked under SpecTopo)               *)
(***************************************************************************)
\* the nodes reachable from a set by following outputs, as a least fixpoint
RECURSIVE Closure(_)
Closure(R) ==
    LET R2 == R \cup UNION {Range(outputs[n]) : n \in R}
    IN IF R2 = R THEN R ELSE Closure(R2)

Reachable == Closure(Range(sources))
\* the nodes reachable from n by one edge or more
After(n) == Closure(Range(outputs[n]))
HasReachableCycle == \E n \in Reachable : n \in After(n)
\* every input of a reachable node is reachable: the graph grew from the
\* declared sources alone
BuiltFromSources == \A n \in Reachable : Range(inputs[n]) \subseteq Reachable

Position(seq, n) == CHOOSE i \in DOMAIN seq : seq[i] = n

\* C2: whenever a Runner has been constructed, its order holds every node
\* reachable from the sources exactly once and every node after all of its
\* inputs; and construction does succeed on every acyclic graph grown from
\* the declared sources.
C2_TopologicalValidity ==
    /\ runner = "built" =>
          /\ Range(order) = Reachable
          /\ Len(order) = Cardinality(Reachable)
          /\ Range(graph) = Reachable
          /\ \A n \in Reachable : \A m \in Range(inputs[n]) :
                m \in Range(order) /\ Position(order, m) < Position(order, n)
    /\ (runner # "none" /\ ~HasReachableCycle /\ BuiltFromSources) => runner = "built"

\* a Runner built over a diamond: a node with two distinct inputs that share
\* an input, all four in the order
C2_Witness ==
    /\ runner = "built"
    /\ Len(order) = 4
    /\ \E n \in Reachable : \E a, b \in Range(inputs[n]) :
          a # b /\ Range(inputs[a]) \cap Range(inputs[b]) # {}

\* C3: when a cycle is reachable from the declared sources, every attempted
\* construction has failed with ValueError and left no Runner, and the
\* reachability traversal ended within one iteration per root and per edge.
C3_CycleFailsConstruction ==
    (HasReachableCycle /\ runner # "none") =>
        /\ runner = "ValueError"
        /\ graph = <<>> /\ order = <<>>
        /\ collectPops <= Len(sources) + NumEdges

\* construction failed on a graph with a reachable self-loop and a cycle
\* that passes through a source
C3_Witness ==
    /\ runner = "ValueError"
    /\ \E n \in Reachable : n \in Range(outputs[n])
    /\ \E s \in Range(sources) : \E m \in After(s) : m # s /\ s \in After(m)

\* C21: when a declared sink is not reachable from the declared sources,
\* every attempted construction has failed with ValueError and left no
\* Runner.
C21_DisconnectedFailsConstruction ==
    (runner # "none" /\ ~(Range(sinks) \subseteq Reachable)) => runner = "ValueError"

\* C31: an attempted construction has failed with ValueError exactly when
\* the nodes reachable from the declared sources contain a cycle or a node
\* with an input that is not reachable from the declared sources; in every
\* other case it has built the Runner.
C31_ValueErrorIff ==
    runner # "none" =>
        /\ runner \in {"ValueError", "built"}
        /\ runner = "ValueError" <=> (HasReachableCycle \/ ~BuiltFromSources)

\* construction failed on an acyclic graph in which a reachable node has an
\* input that was not declared as a source
C31_Witness ==
    /\ runner = "ValueError"
    /\ ~HasReachableCycle
    /\ \E n \in Reachable : \E m \in Range(inputs[n]) : m \notin Reachable /\ inputs[m] = <<>>

\* how often x occurs in the list seq
Occurrences(seq, x) == Cardinality({i \in DOMAIN seq : seq[i] = x})

\* C38: after any sequence of connect calls, b occurs in a's outputs as
\* often as a occurs in b's inputs, for all nodes a and b; a.connect(d)
\* appends d to a's outputs and a to d's inputs, changes no other list and
\* no cache, returns d, and is refused for no pair of nodes: not for d = a,
\* not for an edge that is there already, not for one that closes a cycle.
C38_EdgeSymmetry ==
    /\ [](\A a, b \in DOMAIN outputs :
             Occurrences(outputs[a], b) = Occurrences(inputs[b], a))
    /\ [][\A a, d \in TopoNodes :
             Connect(a, d) =>
                /\ outputs'[a] = Append(outputs[a], d)
                /\ inputs'[d] = Append(inputs[d], a)
                /\ \A n \in TopoNodes :
                      /\ n # a => outputs'[n] = outputs[n]
                      /\ n # d => inputs'[n] = inputs[n]
                /\ cache' = cache
                /\ connect([ins |-> inputs, outs |-> outputs], a, d).returns = d]_vars
    /\ []((runner = "none" /\ NumEdges < baseEdges + MaxEdges) =>
             \A a, d \in TopoNodes : ENABLED Connect(a, d))

\* connect calls have made a node its own input and output, twice over
C38_Witness ==
    /\ runner = "none"
    /\ \E a \in TopoNodes :
          Occurrences(outputs[a], a) = 2 /\ Occurrences(inputs[a], a) = 2

(***************************************************************************)
(* pipeline.py : the Pipeline's settings, their validation against the     *)
(* settings model and their storage in the settings file.  The methods are *)
(* operators on the object `self`, called from one thread.                 *)
(*                                                                         *)
(* A value is a Python int or str.  The settings model is                  *)
(* PiMotionPipeline.Settings, reduced to its two first int fields; "fps"   *)
(* is a key the model does not declare.                                    *)
(***************************************************************************)
IntV(n) == [type |-> "int", n |-> n, text |-> ""]
StrV(s) == [type |-> "str", n |-> 0, text |-> s]

\* the strings pydantic's int validation accepts, and the int each becomes
IntOfText == [s \in {"60"} |-> 60]

Fields == {"motion_min_area", "motion_threshold"}
ConfKeys == Fields \cup {"fps"}

\* Field(default, json_schema_extra={"min": .., "max": ..}) of each field
Schema ==
    [motion_min_area |-> [default |-> 50, min |-> 1, max |-> 10000],
     motion_threshold |-> [default |-> 25, min |-> 0, max |-> 255]]

\* an empty dict
Empty == [k \in {} |-> IntV(0)]

\* d.update(e) on dicts
DictUpdate(d, e) ==
    [k \in DOMAIN d \cup DOMAIN e |-> IF k \in DOMAIN e THEN e[k] ELSE d[k]]

\* pydantic validation of a value for an int field: an int is taken as it
\* is, a str is parsed; the min and max of json_schema_extra are schema
\* metadata, which validation does not read
ValidInt(v) == v.type = "int" \/ (v.type = "str" /\ v.text \in DOMAIN IntOfText)
ToInt(v) == IF v.type = "int" THEN v ELSE IntV(IntOfText[v.text])

\* the value validation sees for field f: the one given, or the default
FieldValue(data, f) == IF f \in DOMAIN data THEN data[f] ELSE IntV(Schema[f].default)

model_validate_unchecked(data) ==
    [ok |-> TRUE, model |-> [f \in Fields |-> IF ValidInt(FieldValue(data, f))
                                              THEN ToInt(FieldValue(data, f))
                                              ELSE FieldValue(data, f)]]

\* settings_model.model_validate(data) and settings_model(**data): keys that
\* are no fields are ignored; ok is FALSE where ValidationError is raised
model_validate(data) ==
    IF \A f \in Fields : ValidInt(FieldValue(data, f))
    THEN [ok |-> TRUE, model |-> [f \in Fields |-> ToInt(FieldValue(data, f))]]
    ELSE [ok |-> FALSE, model |-> Empty]

\* json.dump / model_dump_json of a value, and json.load of it
ToJson(v) ==
    IF v.type = "int" THEN [json |-> "number", n |-> v.n, text |-> ""]
    ELSE [json |-> "string", n |-> 0, text |-> v.text]
FromJson(j) == IF j.json = "number" THEN IntV(j.n) ELSE StrV(j.text)
JsonDump(d) == [k \in DOMAIN d |-> ToJson(d[k])]
JsonLoad(o) == [k \in DOMAIN o |-> FromJson(o[k])]

\* self.settings_file does not exist
NoFile == [exists |-> FALSE, data |-> Empty]

\* no settings_to_save argument
NoArg == <<"no argument">>

_save_settings_withstate(self, settings_to_save) ==
    LET target == IF settings_to_save = NoArg \/ DOMAIN settings_to_save = {}
                  THEN self.settings ELSE settings_to_save
    IN [self EXCEPT !.file = [exists |-> TRUE,
                              data |-> JsonDump(DictUpdate(target, self.state))]]

\* Pipeline._save_settings: target_settings = settings_to_save or self.settings,
\* written to self.settings_file as JSON
_save_settings(self, settings_to_save) ==
    LET target == IF settings_to_save = NoArg \/ DOMAIN settings_to_save = {}
                  THEN self.settings ELSE settings_to_save
    IN [self EXCEPT !.file = [exists |-> TRUE, data |-> JsonDump(target)]]

\* the content of a file that json.load cannot parse (JSONDecodeError), and
\* of one that holds a JSON document that is no object, a list, which
\* settings_model(**saved_data) cannot take (TypeError)
NotJson == [k \in {"not json"} |-> [json |-> "none", n |-> 0, text |-> ""]]
JsonList == [k \in {"json list"} |-> [json |-> "none", n |-> 0, text |-> ""]]

_load_settings_nosave(self) ==
    IF ~self.settings_model THEN [self |-> self, value |-> Empty, error |-> FALSE]
    ELSE LET initial_settings == model_validate(Empty).model
             saved == IF self.file.data \in {NotJson, JsonList}
                      THEN [ok |-> FALSE, model |-> Empty]
                      ELSE model_validate(JsonLoad(self.file.data))
         IN IF self.file.exists /\ saved.ok
            THEN [self |-> self, value |-> saved.model, error |-> FALSE]
            ELSE [self |-> IF self.file.exists THEN self
                           ELSE _save_settings(self, initial_settings),
                  value |-> initial_settings, error |-> self.file.exists]

\* Pipeline._load_settings: returns the saved settings when the file holds
\* valid ones; else (any Exception of json.load or of the settings model is
\* caught, and "Error loading settings" printed: error) the defaults, which
\* it saves
_load_settings(self) ==
    IF ~self.settings_model THEN [self |-> self, value |-> Empty, error |-> FALSE]
    ELSE LET initial_settings == model_validate(Empty).model
             saved == IF self.file.data \in {NotJson, JsonList}
                      THEN [ok |-> FALSE, model |-> Empty]
                      ELSE model_validate(JsonLoad(self.file.data))
         IN IF self.file.exists /\ saved.ok
            THEN [self |-> self, value |-> saved.model, error |-> FALSE]
            ELSE [self |-> _save_settings(self, initial_settings),
                  value |-> initial_settings, error |-> self.file.exists]

\* Pipeline.__init__: self.settings = self._load_settings() with a settings
\* model, {} without one
Pipeline_init(settings_model, settings_file) ==
    LET self == [settings_model |-> settings_model, settings |-> Empty, state |-> Empty,
                 file |-> settings_file, running |-> FALSE, thread |-> NoThread,
                 workers |-> <<>>]
        loaded == _load_settings(self)
    IN IF settings_model THEN [loaded.self EXCEPT !.settings = loaded.value] ELSE self

\* Pipeline.start, run to its end: a new thread runs run_loop
start(self) ==
    IF self.running THEN self
    ELSE [self EXCEPT !.running = TRUE,
                      !.workers = Append(@, [pc |-> "check", raised |-> FALSE]),
                      !.thread = Len(self.workers) + 1]

\* Pipeline.stop, run to its end: the joined thread has left run_loop
stop(self) ==
    IF self.thread = NoThread THEN [self EXCEPT !.running = FALSE]
    ELSE [self EXCEPT !.running = FALSE,
                      !.workers[self.thread].pc = "dead",
                      !.thread = NoThread]

update_settings_replace(self, new_settings, do_restart) ==
    LET checked == IF self.settings_model
                   THEN model_validate(new_settings)
                   ELSE [ok |-> TRUE, model |-> new_settings]
        saved == _save_settings([self EXCEPT !.settings = checked.model], NoArg)
    IN IF ~checked.ok THEN [self |-> self, rejected |-> TRUE, result |-> [returned |-> "None", status |-> "no response", restarted |-> FALSE]]
       ELSE [self |-> IF do_restart /\ saved.running THEN start(stop(saved)) ELSE saved,
             rejected |-> FALSE, result |-> [returned |-> "None", status |-> "no response", restarted |-> FALSE]]

update_settings_nosave(self, new_settings, do_restart) ==
    LET checked == IF self.settings_model
                   THEN model_validate(DictUpdate(self.settings, new_settings))
                   ELSE [ok |-> TRUE, model |-> DictUpdate(self.settings, new_settings)]
        saved == [self EXCEPT !.settings = checked.model]
    IN IF ~checked.ok THEN [self |-> self, rejected |-> TRUE, result |-> [returned |-> "None", status |-> "no response", restarted |-> FALSE]]
       ELSE [self |-> IF do_restart /\ saved.running THEN start(stop(saved)) ELSE saved,
             rejected |-> FALSE, result |-> [returned |-> "None", status |-> "no response", restarted |-> FALSE]]

\* Pipeline.update_settings: with a settings model, model_dump, update and
\* model_validate, and on ValidationError print and return; without one,
\* self.settings.update(new_settings); then self._save_settings() and, if
\* do_restart and self.running, self.stop() and self.start().  Every path
\* returns None; rejected records the path taken.
update_settings(self, new_settings, do_restart) ==
    LET checked == IF self.settings_model
                   THEN model_validate(DictUpdate(self.settings, new_settings))
                   ELSE [ok |-> TRUE, model |-> DictUpdate(self.settings, new_settings)]
        saved == _save_settings([self EXCEPT !.settings = checked.model], NoArg)
    IN IF ~checked.ok THEN [self |-> self, rejected |-> TRUE, result |-> [returned |-> "None", status |-> "no response", restarted |-> FALSE]]
       ELSE [self |-> IF do_restart /\ saved.running THEN start(stop(saved)) ELSE saved,
             rejected |-> FALSE, result |-> [returned |-> "None", status |-> "no response", restarted |-> FALSE]]

\* webapp/routes.py, POST /api/settings: restart_needed is whether the schema
\* marks a given key restart_required, which no field of Schema is; the
\* response is the same whatever update_settings did
post_settings(self, new_settings) ==
    LET restart_needed == FALSE
        call == update_settings(self, new_settings, restart_needed)
    IN [self |-> call.self, rejected |-> call.rejected,
        result |-> [returned |-> "None", status |-> "ok", restarted |-> restart_needed]]

(***************************************************************************)
(* SpecConf: one thread uses a Pipeline's settings and state: it calls     *)
(* update_settings, directly and through POST /api/settings, writes into   *)
(* the settings dict and the state mapping as test_state_separation does,  *)
(* starts and stops the pipeline, and constructs a second Pipeline of the  *)
(* same name over the same settings file.                                  *)
(***************************************************************************)
MaxPartial == 2     \* keys given in one update_settings call

\* the values given for a key: an int (300 lies within the min and max of
\* motion_min_area and above the max of motion_threshold), a str that
\* parses as an int and one that does not
Values == {IntV(300), StrV("60"), StrV("night")}

\* the new_settings arguments: any values for up to MaxPartial keys
Partials ==
    UNION {[K -> Values] : K \in {J \in SUBSET ConfKeys : J # {} /\ Cardinality(J) <= MaxPartial}}

\* p.state['motion_detected'] = True
StateKeys == {"motion_detected"}
StateValues == {[type |-> "bool", n |-> 1, text |-> ""]}

\* the callers of SpecPipe, absent
NoCallers ==
    /\ pc = [t \in Callers |-> "off"] /\ op = [t \in Callers |-> "none"]
    /\ ret = [t \in Callers |-> "top"] /\ upd = [t \in Callers |-> KeyOf(t)]
    /\ restart = [t \in Callers |-> FALSE] /\ cur = [t \in Callers |-> Defaults]
    /\ joinT = [t \in Callers |-> NoThread]
    /\ noStart = [t \in Callers |-> FALSE] /\ skipped = [t \in Callers |-> FALSE]
    /\ nStarts = [t \in Callers |-> 0] /\ oldT = [t \in Callers |-> NoThread]
    /\ applied = {}

\* the Pipeline object the variables hold
Self ==
    [settings_model |-> hasModel, settings |-> settings, state |-> state, file |-> file,
     running |-> running, thread |-> thread, workers |-> workers]

SetSelf(self) ==
    /\ settings' = self.settings /\ state' = self.state /\ file' = self.file
    /\ running' = self.running /\ thread' = self.thread /\ workers' = self.workers

\* a Pipeline with or without a settings model, constructed where no
\* settings file exists (the tests unlink it first)
InitConf ==
    /\ hasModel \in BOOLEAN
    /\ LET self == Pipeline_init(hasModel, NoFile)
       IN /\ settings = self.settings /\ state = self.state /\ file = self.file
          /\ running = self.running /\ thread = self.thread /\ workers = self.workers
    /\ runLoop = "loop" /\ lock = NoOne
    /\ fresh = NoInstance
    /\ told = [last |-> "init", restart |-> FALSE, applied |-> {}, rejected |-> {}]
    /\ NoCallers /\ NoGraph /\ NoHeap /\ NoFileSource /\ NoPreviews

\* the caller learns call.result from a call that was applied or rejected;
\* last is the latest of the update_settings calls ("update") and the direct
\* writes into p.settings and p.state ("write"); restart is the restart
\* argument of the latest call
Tell(call, r) ==
    told' = [last |-> "update", restart |-> r,
             applied |-> told.applied \cup (IF call.rejected THEN {} ELSE {call.result}),
             rejected |-> told.rejected \cup (IF call.rejected THEN {call.result} ELSE {})]

confFrame == <<engineVars, heapVars, sourceVars, previews, callVars, obsVars, hasModel, runLoop, lock>>

\* p.update_settings(new_settings, restart=r)
UpdateSettings(new_settings, r) ==
    /\ (r /\ running) => CanStart
    /\ LET call == update_settings(Self, new_settings, r)
       IN SetSelf(call.self) /\ Tell(call, r)
    /\ fresh' = NoInstance
    /\ UNCHANGED confFrame

\* POST /api/settings with new_settings as its body
PostSettings(new_settings) ==
    /\ LET call == post_settings(Self, new_settings)
       IN SetSelf(call.self) /\ Tell(call, call.result.restarted)
    /\ fresh' = NoInstance
    /\ UNCHANGED confFrame

\* p.settings['motion_threshold'] = v, on the settings dict of a Pipeline
\* without a settings model
SetItem(v) ==
    /\ ~hasModel
    /\ settings' = DictUpdate(settings, [k \in {"motion_threshold"} |-> v])
    /\ told' = [told EXCEPT !.last = "write"]
    /\ fresh' = NoInstance
    /\ UNCHANGED <<state, file, running, thread, workers>>
    /\ UNCHANGED confFrame

\* p.state[k] = v
SetState(k, v) ==
    /\ state' = DictUpdate(state, [j \in {k} |-> v])
    /\ told' = [told EXCEPT !.last = "write"]
    /\ UNCHANGED <<settings, file, running, thread, workers, fresh>>
    /\ UNCHANGED confFrame

\* p.start()
Start ==
    /\ CanStart
    /\ SetSelf(start(Self))
    /\ UNCHANGED <<fresh, told>>
    /\ UNCHANGED confFrame

\* p.stop()
Stop ==
    /\ SetSelf(stop(Self))
    /\ UNCHANGED <<fresh, told>>
    /\ UNCHANGED confFrame

\* a second instance: Pipeline(name, settings_model) over the same file
NewPipeline ==
    /\ LET p2 == Pipeline_init(hasModel, file)
       IN fresh' = p2.settings /\ file' = p2.file
    /\ UNCHANGED <<settings, state, running, thread, workers, told>>
    /\ UNCHANGED confFrame

NextConf ==
    \/ \E ns \in Partials, r \in BOOLEAN : UpdateSettings(ns, r)
    \/ \E ns \in Partials : PostSettings(ns)
    \/ \E v \in Values : SetItem(v)
    \/ \E k \in StateKeys, v \in StateValues : SetState(k, v)
    \/ Start
    \/ Stop
    \/ NewPipeline

SpecConf == InitConf /\ [][NextConf]_vars

(***************************************************************************)
(* Claims about the Pipeline's settings and state (checked under SpecConf) *)
(***************************************************************************)
\* C11: a second Pipeline of the same name, constructed over the same
\* settings file after an update_settings call on the first, has settings
\* equal to the first one's, with and without a settings model.
C11_PersistenceRoundTrip ==
    (fresh # NoInstance /\ told.last = "update") => fresh = settings

\* C12: the settings file holds configuration keys only: no key of the state
\* mapping and no value of it is in the file, whatever was written into
\* p.state before the file was saved.
C12_StateNeverPersisted ==
    \A k \in DOMAIN file.data :
        /\ k \in ConfKeys
        /\ k \notin DOMAIN state
        /\ \A j \in DOMAIN state : FromJson(file.data[k]) # state[j]

\* p.state was written and then an update_settings call saved the file of
\* a Pipeline without a settings model, as in test_state_separation
C12_Witness ==
    /\ ~hasModel /\ state # Empty /\ told.last = "update"
    /\ file.exists /\ "fps" \in DOMAIN file.data

\* new_settings gives a declared field a value that the settings model's
\* validation refuses
FailsValidation(new_settings) ==
    hasModel /\ \E f \in Fields \cap DOMAIN new_settings : ~ValidInt(new_settings[f])

\* what a call p.update_settings(new_settings, ..) made now, directly with
\* either value of restart or through POST /api/settings, does: each is
\* [self, rejected, result], self being the Pipeline after the call
Calls(new_settings) ==
    {update_settings(Self, new_settings, r) :
        r \in {b \in BOOLEAN : (b /\ running) => CanStart}}
    \cup {post_settings(Self, new_settings)}

\* C13: whenever update_settings is called, directly or through
\* POST /api/settings, with new_settings that fail validation against the
\* settings model, it leaves p.settings and the settings file unchanged and
\* stops and starts no worker, also with restart=True on a running Pipeline.
C13_RejectedUpdateNoSideEffects ==
    \A ns \in Partials :
        FailsValidation(ns) =>
            \A c \in Calls(ns) :
                /\ c.self.settings = settings /\ c.self.file = file
                /\ c.self.running = running /\ c.self.thread = thread
                /\ c.self.workers = workers

\* only rejected calls were made so far, the latest of them with
\* restart=True on a running Pipeline
C13_Witness ==
    /\ hasModel /\ running /\ thread # NoThread
    /\ told.last = "update" /\ told.restart
    /\ told.rejected # {} /\ told.applied = {}

\* every key that p.settings held and new_settings does not give keeps its
\* value in the settings `after`
OthersKept(new_settings, after) ==
    \A k \in DOMAIN settings \ DOMAIN new_settings :
        k \in DOMAIN after /\ after[k] = settings[k]

\* the value p.settings holds for a given one: under a settings model an int
\* given as a string is held as the int
Stored(v) == IF hasModel /\ ValidInt(v) THEN ToInt(v) ELSE v

\* C17 as stated: after update_settings(partial) every key in partial holds
\* the new value and every other configuration key keeps its previous value.
C17_LastWriteWins ==
    \A ns \in Partials : \A c \in Calls(ns) :
        /\ \A k \in DOMAIN ns :
              k \in DOMAIN c.self.settings /\ c.self.settings[k] = Stored(ns[k])
        /\ OthersKept(ns, c.self.settings)

\* C17, amended: after an update_settings(partial) that is not rejected,
\* every key in partial holds the new value, where under a settings model
\* these are the keys the model declares and the value is the validated one
\* (an int given as a string is held as the int), and every other key that
\* the settings held keeps its previous value, also one written directly
\* into the mapping before the call; no other key appears.
C17_LastWriteWinsWhenAccepted ==
    \A ns \in Partials :
        ~FailsValidation(ns) =>
            \A c \in Calls(ns) :
                /\ \A k \in DOMAIN ns :
                      (hasModel => k \in Fields)
                          => (k \in DOMAIN c.self.settings
                              /\ c.self.settings[k] = Stored(ns[k]))
                /\ OthersKept(ns, c.self.settings)
                /\ DOMAIN c.self.settings
                      = DOMAIN settings \cup (IF hasModel THEN {} ELSE DOMAIN ns)

\* a Pipeline without a settings model holds three keys with three values
\* after an update_settings call: more keys than one call gave, so that an
\* earlier update or a direct write gave the others
C17_Witness ==
    /\ ~hasModel /\ told.last = "update"
    /\ DOMAIN settings = ConfKeys
    /\ settings["fps"] = IntV(300)
    /\ settings["motion_threshold"] = StrV("night")
    /\ settings["motion_min_area"] = StrV("60")

OutOfRange(new_settings) ==
    \E f \in Fields \cap DOMAIN new_settings :
        /\ ValidInt(new_settings[f])
        /\ \/ ToInt(new_settings[f]).n < Schema[f].min
           \/ ToInt(new_settings[f]).n > Schema[f].max

\* C19: an update_settings call that gives a field of the settings model a
\* value outside the field's declared min and max is rejected: the settings
\* keep the previous values.
C19_OutOfRangeRejected ==
    \A ns \in Partials :
        (hasModel /\ OutOfRange(ns)) =>
            \A c \in Calls(ns) : c.rejected /\ c.self.settings = settings

\* C20: no result that the caller of update_settings, or the client of
\* POST /api/settings, got from a rejected update is one that an applied
\* update gives as well.
C20_CallerToldOfRejection ==
    told.applied \cap told.rejected = {}

(***************************************************************************)
(* SpecLoad: a Pipeline is constructed over whatever the settings file     *)
(* holds: nothing, no JSON, a JSON list, or a JSON object with some keys   *)
(* and values.                                                             *)
(***************************************************************************)
PersistedFiles ==
    {NoFile}
    \cup {[exists |-> TRUE, data |-> d] : d \in {NotJson, JsonList, JsonDump(Empty)}}
    \cup {[exists |-> TRUE, data |-> JsonDump(ns)] : ns \in Partials}

\* before the Pipeline is constructed
InitLoad ==
    /\ hasModel \in BOOLEAN
    /\ file \in PersistedFiles
    /\ settings = Empty /\ state = Empty
    /\ running = FALSE /\ thread = NoThread /\ workers = <<>>
    /\ runLoop = "loop" /\ lock = NoOne
    /\ fresh = NoInstance
    /\ told = [last |-> "init", restart |-> FALSE, applied |-> {}, rejected |-> {}]
    /\ NoCallers /\ NoGraph /\ NoHeap /\ NoFileSource /\ NoPreviews

\* Pipeline(name, settings_model); told holds what it printed
LoadPipeline ==
    /\ LET p == Pipeline_init(hasModel, file)
           loaded == _load_settings([settings_model |-> hasModel, settings |-> Empty,
                                     state |-> Empty, file |-> file, running |-> FALSE,
                                     thread |-> NoThread, workers |-> <<>>])
       IN /\ fresh' = p.settings /\ file' = p.file
          /\ told' = [told EXCEPT !.last = IF loaded.error THEN "Error loading settings"
                                           ELSE "construct"]
    /\ UNCHANGED <<settings, state, running, thread, workers>>
    /\ UNCHANGED confFrame

NextLoad == LoadPipeline

SpecLoad == InitLoad /\ [][NextLoad]_vars

\* the settings file exists and json.load or the settings model rejects it
Unloadable(f) ==
    /\ f.exists
    /\ \/ f.data \in {NotJson, JsonList}
       \/ \E k \in Fields \cap DOMAIN f.data : ~ValidInt(FromJson(f.data[k]))

\* settings_model(): every field at its default
ModelDefaults == [f \in Fields |-> IntV(Schema[f].default)]

\* C40: constructing a Pipeline with a settings model over a settings file
\* that exists and cannot be parsed or validated gives an instance (nothing
\* is raised) whose settings are the model's defaults, and leaves the file
\* holding those defaults.
C40_BadFileFallsBackToDefaults ==
    [][(LoadPipeline /\ hasModel /\ Unloadable(file)) =>
          /\ fresh' = ModelDefaults
          /\ file' = [exists |-> TRUE, data |-> JsonDump(ModelDefaults)]]_vars

\* a Pipeline was constructed over a file that held no JSON or a value that
\* is no int, and the file now holds the defaults
C40_Witness ==
    /\ hasModel /\ fresh = ModelDefaults /\ told.last = "Error loading settings"
    /\ file.exists /\ JsonLoad(file.data) = ModelDefaults

(***************************************************************************)
(* frame.py : FramePacket objects on the heap.  A packet's metadata lists  *)
(* are list objects: a packet holds a reference to each (an index into     *)
(* heap), and heap[r] is what the list object r holds.  The image is an    *)
(* ndarray, held by reference.                                             *)
(***************************************************************************)
ListFields == {"detections", "regions_of_interest", "ocr_results"}

list_alias(h, r) == [heap |-> h, ref |-> r]

\* Python's list(x) for the list object r: a new list object holding the
\* elements of r
list(h, r) == [heap |-> Append(h, h[r]), ref |-> Len(h) + 1]

\* FramePacket.copy_shallow on the packet object p: [heap, packet]
copy_shallow_object(h, p) ==
    LET d == list(h, p.detections)
        g == list(d.heap, p.regions_of_interest)
        o == list(g.heap, p.ocr_results)
    IN [heap |-> o.heap,
        packet |-> [frame_id |-> p.frame_id, timestamp |-> p.timestamp, image |-> p.image,
                    detections |-> d.ref, regions_of_interest |-> g.ref,
                    ocr_results |-> o.ref, drop_frame |-> p.drop_frame]]

(***************************************************************************)
(* SpecCopy: branches take shallow copies of a packet, of the original or  *)
(* of a copy, and append to the metadata lists of the packets they hold.   *)
(***************************************************************************)
MaxPackets == 3     \* packet objects: the original and the copies
MaxAppends == 2     \* appended elements held by the lists

\* the element a list may hold before any copy is taken; what is appended
\* later is the number of the packet whose holder appended it
Initial == 0
Lists0 == {<<>>, <<Initial>>}

\* how many appended elements the list objects hold
RECURSIVE Appended(_, _)
Appended(h, r) ==
    IF r > Len(h) THEN 0
    ELSE Cardinality({i \in DOMAIN h[r] : h[r][i] # Initial}) + Appended(h, r + 1)

InitCopy ==
    /\ \E d \in Lists0, g \in Lists0, o \in Lists0 : heap = <<d, g, o>>
    /\ \E f \in 0..1, drop \in BOOLEAN :
          pkts = << [frame_id |-> f, timestamp |-> f + 1, image |-> 1,
                     detections |-> 1, regions_of_interest |-> 2, ocr_results |-> 3,
                     drop_frame |-> drop] >>
    /\ NoGraph /\ NoPipeline /\ NoConf /\ NoFileSource /\ NoPreviews

copyFrame == <<engineVars, pipeVars, callVars, obsVars, confVars, sourceVars, previews>>

\* a branch takes packet p's shallow copy
CopyShallow(p) ==
    /\ Len(pkts) < MaxPackets
    /\ LET c == copy_shallow_object(heap, pkts[p])
       IN heap' = c.heap /\ pkts' = Append(pkts, c.packet)
    /\ UNCHANGED copyFrame

\* the holder of packet p appends to one of its metadata lists:
\* packet.detections.append(..), packet.ocr_results.append(..)
AppendTo(p, f) ==
    /\ Appended(heap, 1) < MaxAppends
    /\ heap' = [heap EXCEPT ![pkts[p][f]] = Append(@, p)]
    /\ UNCHANGED pkts
    /\ UNCHANGED copyFrame

NextCopy ==
    \/ \E p \in DOMAIN pkts : CopyShallow(p)
    \/ \E p \in DOMAIN pkts, f \in ListFields : AppendTo(p, f)

SpecCopy == InitCopy /\ [][NextCopy]_vars

(***************************************************************************)
(* Claims about FramePacket.copy_shallow (checked under SpecCopy)          *)
(***************************************************************************)
\* what packet q's metadata list f holds
Held(h, q, f) == h[q[f]]

\* C16: copy_shallow returns a packet with the same frame_id, timestamp and
\* drop_frame, the same image reference and lists holding the same elements;
\* an append to a list of one packet, a copy or the original, changes no
\* list of any other packet: no branch sees what another branch appended
\* and the original's lists are unchanged.
C16_ShallowCopyIsolation ==
    [][/\ \A p \in DOMAIN pkts :
             CopyShallow(p) =>
                LET new == pkts'[Len(pkts')]
                IN /\ new.frame_id = pkts[p].frame_id
                   /\ new.timestamp = pkts[p].timestamp
                   /\ new.drop_frame = pkts[p].drop_frame
                   /\ new.image = pkts[p].image
                   /\ \A f \in ListFields : Held(heap', new, f) = Held(heap, pkts[p], f)
                   /\ \A q \in DOMAIN pkts, f \in ListFields :
                         Held(heap', pkts'[q], f) = Held(heap, pkts[q], f)
       /\ \A p \in DOMAIN pkts, f \in ListFields :
             AppendTo(p, f) =>
                /\ Held(heap', pkts'[p], f) = Append(Held(heap, pkts[p], f), p)
                /\ \A q \in DOMAIN pkts, g \in ListFields :
                      (q # p \/ g # f) => Held(heap', pkts'[q], g) = Held(heap, pkts[q], g)]_vars

\* two branches each took a shallow copy of the original and each appended
\* to the detections list of its own copy
C16_Witness ==
    /\ Len(pkts) = 3
    /\ Held(heap, pkts[2], "detections") = Append(Held(heap, pkts[1], "detections"), 2)
    /\ Held(heap, pkts[3], "detections") = Append(Held(heap, pkts[1], "detections"), 3)

(***************************************************************************)
(* nodes/sources/__init__.py : FileSource.  A directory is a function from *)
(* the paths of its image files to whether cv2.imread can read the file;   *)
(* a path is a number, smaller for the path that sorts first, and stands   *)
(* for the image read from it as well.                                     *)
(***************************************************************************)
MaxFiles == 3
MaxCalls == MaxFiles + 2
Paths == 1..MaxFiles
NoImage == 0
FileNotFoundError == "FileNotFoundError"
NoError == "none"
\* Python's recursion limit, above the depth a pass over the files needs
RecursionLimit == 2 * MaxFiles + 2

RECURSIVE sorted(_)
sorted(files) ==
    IF files = {} THEN <<>>
    ELSE LET first == CHOOSE x \in files : \A y \in files : x <= y
         IN <<first>> \o sorted(files \ {first})

\* FileSource._list_images
_list_images(directory) ==
    LET files == sorted(DOMAIN directory)
    IN [raised |-> IF files = <<>> THEN FileNotFoundError ELSE NoError, files |-> files]

\* FileSource.__init__ (BaseSource.__init__ sets _frame_id); `raised` is the
\* error the construction ended with
FileSource(directory, loop) ==
    LET listed == _list_images(directory)
    IN [raised |-> listed.raised, directory |-> directory, loop |-> loop,
        _files |-> listed.files, _idx |-> 0, _frame_id |-> 0]

\* cv2.imread: the image, or None for a file it cannot read
imread(directory, path) == IF directory[path] THEN path ELSE NoImage

\* BaseSource._next_frame_id
_next_frame_id(self) == [self |-> [self EXCEPT !._frame_id = @ + 1], fid |-> self._frame_id]

\* what a next_packet call hands to its caller
ReturnsPacket(fid, image) == [ret |-> "packet", frame_id |-> fid, image |-> image]
ReturnsNone == [ret |-> "None", frame_id |-> -1, image |-> NoImage]
RaisesRecursionError == [ret |-> "RecursionError", frame_id |-> -1, image |-> NoImage]

RECURSIVE FileSource_next_packet_eagerid(_, _)
FileSource_next_packet_eagerid(self, depth) ==
    IF depth > RecursionLimit THEN [self |-> self, out |-> RaisesRecursionError]
    ELSE IF self._idx >= Len(self._files) /\ ~self.loop
    THEN [self |-> self, out |-> ReturnsNone]
    ELSE LET rewound == IF self._idx >= Len(self._files) THEN [self EXCEPT !._idx = 0] ELSE self
             path == rewound._files[rewound._idx + 1]
             n == _next_frame_id([rewound EXCEPT !._idx = @ + 1])
             frame == imread(self.directory, path)
         IN IF frame = NoImage
            THEN FileSource_next_packet_eagerid(n.self, depth + 1)
            ELSE [self |-> n.self, out |-> ReturnsPacket(n.fid, frame)]

\* FileSource.next_packet, `depth` calls deep in its own recursion
RECURSIVE FileSource_next_packet(_, _)
FileSource_next_packet(self, depth) ==
    IF depth > RecursionLimit THEN [self |-> self, out |-> RaisesRecursionError]
    ELSE IF self._idx >= Len(self._files) /\ ~self.loop
    THEN [self |-> self, out |-> ReturnsNone]
    ELSE LET rewound == IF self._idx >= Len(self._files) THEN [self EXCEPT !._idx = 0] ELSE self
             path == rewound._files[rewound._idx + 1]
             advanced == [rewound EXCEPT !._idx = @ + 1]
             frame == imread(self.directory, path)
         IN IF frame = NoImage
            THEN \* Skip unreadable files
                 FileSource_next_packet(advanced, depth + 1)
            ELSE LET n == _next_frame_id(advanced)
                 IN [self |-> n.self, out |-> ReturnsPacket(n.fid, frame)]

(***************************************************************************)
(* SpecFile: a FileSource is constructed over a directory and its          *)
(* next_packet is called again and again.                                  *)
(***************************************************************************)
Directories == UNION {[files -> BOOLEAN] : files \in SUBSET Paths}

InitFile ==
    /\ \E directory \in Directories, loop \in BOOLEAN : fsrc = FileSource(directory, loop)
    /\ yielded = <<>>
    /\ NoGraph /\ NoPipeline /\ NoConf /\ NoHeap /\ NoPreviews

\* src.next_packet()
NextPacket ==
    /\ fsrc.raised = NoError
    /\ Len(yielded) < MaxCalls
    /\ \A i \in DOMAIN yielded : yielded[i].ret # "RecursionError"
    /\ LET r == FileSource_next_packet(fsrc, 0)
       IN fsrc' = r.self /\ yielded' = Append(yielded, r.out)
    /\ UNCHANGED <<engineVars, pipeVars, callVars, obsVars, confVars, heapVars, previews>>

NextFile == NextPacket
SpecFile == InitFile /\ [][NextFile]_vars

\* the readable files of the source's directory, in sorted order
ReadableFiles == sorted({path \in DOMAIN fsrc.directory : fsrc.directory[path]})

\* C25: the calls of next_packet on a FileSource with loop=False return, in
\* call order, one packet per readable file in sorted file order with the
\* frame_ids 0, 1, ..., n-1, and None on every call after those.
C25_OnePacketPerReadableFile ==
    (fsrc.raised = NoError /\ ~fsrc.loop) =>
        \A i \in DOMAIN yielded :
            yielded[i] = IF i <= Len(ReadableFiles)
                         THEN ReturnsPacket(i - 1, ReadableFiles[i])
                         ELSE ReturnsNone

\* two readable files behind an unreadable one were read and two more calls made
C25_Witness ==
    /\ fsrc.raised = NoError /\ ~fsrc.loop
    /\ Len(fsrc._files) = 3 /\ ~fsrc.directory[fsrc._files[1]]
    /\ Len(ReadableFiles) = 2
    /\ Len(yielded) = 4

(***************************************************************************)
(* pipeline.py : BallYoloPipeline.  Its run_loop binds its imports, source *)
(* and model, then calls detect_objects(image, model, confidence=conf)     *)
(* ahead of the loop that assigns image and conf: both are locals of the   *)
(* function, since the loop assigns them.                                  *)
(***************************************************************************)
NoPreview == "None"
Frame == "frame"

\* Pipeline.set_preview
set_preview(p, name, frame) ==
    [k \in DOMAIN p \cup {name} |-> IF k = name THEN frame ELSE p[k]]

\* Pipeline.get_preview
get_preview(p, name) == IF name \in DOMAIN p THEN p[name] ELSE NoPreview

\* the names run_loop has bound when it reaches the call ahead of the loop,
\* and the names that call reads
BoundAheadOfLoop ==
    {"BouncingBall", "load_yolo_model", "detect_objects", "cv2", "draw_detections",
     "source", "model"}
ReadAheadOfLoop == {"detect_objects", "image", "model", "conf"}

\* BallYoloPipeline.run_loop in thread w, up to the end of one iteration;
\* _worker catches what it raises
BallYoloRunLoop(w) ==
    /\ runLoop = "ball_yolo"
    /\ w \in DOMAIN workers
    /\ workers[w].pc = "check"
    /\ IF ~(ReadAheadOfLoop \subseteq BoundAheadOfLoop)
       THEN \* UnboundLocalError: traceback.print_exc(); self.running = False
            /\ workers' = [workers EXCEPT ![w].pc = "dead", ![w].raised = TRUE]
            /\ running' = FALSE
            /\ UNCHANGED previews
       ELSE IF running
            THEN /\ previews' = set_preview(previews, "Main", Frame)
                 /\ UNCHANGED <<workers, running>>
            ELSE /\ workers' = [workers EXCEPT ![w].pc = "dead"]
                 /\ UNCHANGED <<running, previews>>
    /\ UNCHANGED <<hasModel, runLoop, settings, file, thread, lock>>
    /\ UNCHANGED <<callVars, obsVars>>
    /\ UNCHANGED <<engineVars, confVars, heapVars, sourceVars>>

(***************************************************************************)
(* SpecBall: one thread calls start, stop and update_settings of a         *)
(* BallYoloPipeline, one call after the other; the worker thread is        *)
(* scheduled fairly.                                                       *)
(***************************************************************************)
InitBall ==
    /\ hasModel = TRUE
    /\ runLoop = "ball_yolo"
    /\ settings = Defaults /\ file = Defaults
    /\ running = FALSE /\ thread = NoThread /\ lock = NoOne /\ workers = <<>>
    /\ pc = [t \in Callers |-> IF t = SeqCaller THEN "idle" ELSE "off"]
    /\ op = [t \in Callers |-> "none"]
    /\ ret = [t \in Callers |-> "top"] /\ upd = [t \in Callers |-> KeyOf(t)]
    /\ restart = [t \in Callers |-> FALSE] /\ cur = [t \in Callers |-> Defaults]
    /\ joinT = [t \in Callers |-> NoThread]
    /\ noStart = [t \in Callers |-> FALSE] /\ skipped = [t \in Callers |-> FALSE]
    /\ nStarts = [t \in Callers |-> 0] /\ oldT = [t \in Callers |-> NoThread]
    /\ applied = {}
    /\ NoGraph /\ NoConf /\ NoHeap /\ NoFileSource /\ NoPreviews

NextBall ==
    \/ Call(SeqCaller)
    \/ (StartCheck(SeqCaller) \/ StartCreate(SeqCaller) \/ StartStart(SeqCaller)
           \/ StartRet(SeqCaller))
    \/ (StopSet(SeqCaller) \/ StopIf(SeqCaller) \/ StopJoin(SeqCaller)
           \/ StopWait(SeqCaller) \/ StopClear(SeqCaller) \/ StopRet(SeqCaller))
    \/ (UpdateRead(SeqCaller) \/ UpdateAssign(SeqCaller) \/ UpdateSave(SeqCaller)
           \/ UpdateRestart(SeqCaller) \/ UpdateRet(SeqCaller))
    \/ \E w \in 1..MaxWorkers : BallYoloRunLoop(w)

SpecBall ==
    InitBall /\ [][NextBall]_vars /\ WF_vars(\E w \in 1..MaxWorkers : BallYoloRunLoop(w))

\* a start() that created the worker is about to return
Started == pc[SeqCaller] = "start_ret" /\ ~skipped[SeqCaller]

\* C26: after start() the worker eventually publishes a frame under the
\* preview name "Main", and running turns False by a stop() call only.
C26_PreviewPublished ==
    /\ [](Started => <>(get_preview(previews, "Main") # NoPreview))
    /\ [][(running /\ ~running') => pc[SeqCaller] = "stop"]_vars


(***************************************************************************)
(* examples/run_multi_stream.py : the shipped fan-out graph, with the      *)
(* packets as objects.  A BouncingBallSource feeds a WebSink directly and  *)
(* a second WebSink through a YoloNode and a DrawDetectionsNode.  A cache  *)
(* entry and a forward result are references to a packet object (an index  *)
(* into pkts); the image of a packet is an ndarray object in heap, which   *)
(* holds what has been drawn over the frame the source rendered.           *)
(***************************************************************************)
MaxTicks == 3        \* run_once calls (the source never ends)
MaxDetections == 2   \* boxes the YOLO model finds in one image

Labels == {"sports ball", "person"}

\* what self._model(packet.image) can return: the labels of the boxes
Results == UNION {[1..n -> Labels] : n \in 0..MaxDetections}

\* the objects: [heap, pkts, cache, consumed]
Objects == [heap |-> heap, pkts |-> pkts, cache |-> cache, consumed |-> consumed]

\* BouncingBallSource.next_packet: a new frame, in a new packet whose lists
\* are new empty lists (frame.py, default_factory=list): [os, packet]
BouncingBallSource_next_packet(os, frame_id) ==
    LET img == Len(os.heap) + 1
    IN [os |-> [os EXCEPT
                  !.heap = @ \o << <<>>, <<>>, <<>>, <<>> >>,
                  !.pkts = Append(@, [frame_id |-> frame_id, timestamp |-> frame_id + 1,
                                      image |-> img, detections |-> img + 1,
                                      regions_of_interest |-> img + 2,
                                      ocr_results |-> img + 3, drop_frame |-> FALSE])],
        packet |-> Len(os.pkts) + 1]

\* Node._set_cache of a packet object
_set_cache_object(os, node, p) ==
    LET f == os.pkts[p].frame_id
    IN [os EXCEPT !.cache[node] = [k \in (DOMAIN @) \cup {f} |-> IF k = f THEN p ELSE @[k]]]

\* YoloNode.forward, _inference_ultralytics: packet.detections = [] and an
\* append per box, on the packet it was passed; returns that packet
YoloNode_forward(os, p, results) ==
    [os |-> [os EXCEPT !.heap = Append(@, results),
                       !.pkts[p].detections = Len(os.heap) + 1],
     packet |-> p]

\* DrawDetectionsNode.forward: draws every box on packet.image; returns the
\* packet it was passed
DrawDetectionsNode_forward(os, p) ==
    IF os.heap[os.pkts[p].detections] = <<>> THEN [os |-> os, packet |-> p]
    ELSE [os |-> [os EXCEPT !.heap[os.pkts[p].image] = @ \o os.heap[os.pkts[p].detections]],
          packet |-> p]

\* BaseSource.forward (caches and returns the packet) and WebSink.forward
forward_object(os, node, p, results) ==
    IF kind[node] = "YoloNode" THEN YoloNode_forward(os, p, results)
    ELSE IF kind[node] = "DrawDetectionsNode" THEN DrawDetectionsNode_forward(os, p)
    ELSE IF kind[node] = "BouncingBallSource"
         THEN [os |-> _set_cache_object(os, node, p), packet |-> p]
         ELSE [os |-> os, packet |-> p]

\* WebSink.consume: the image is encoded to JPEG and written to the stream
WebSink_consume(os, sink, p) ==
    [os EXCEPT !.consumed[sink] = Append(@, [packet |-> p, jpeg |-> os.heap[os.pkts[p].image]])]

\* Runner._eval_node_chain on packet objects: [os, packet]
RECURSIVE _eval_node_chain_object(_, _, _, _), EvalInputsObject(_, _, _, _, _)
EvalInputsObject(node, i, p, os, results) ==
    IF i > Len(inputs[node]) THEN [returned |-> FALSE, os |-> os, packet |-> p]
    ELSE LET r == _eval_node_chain_object(inputs[node][i], p, os, results)
         IN IF r.os.pkts[r.packet].drop_frame
            THEN [returned |-> TRUE, os |-> _set_cache_object(r.os, node, r.packet),
                  packet |-> r.packet]
            ELSE EvalInputsObject(node, i + 1, r.packet, r.os, results)

_eval_node_chain_object(node, p, os, results) ==
    IF os.pkts[p].frame_id \in DOMAIN os.cache[node]
    THEN [os |-> os, packet |-> os.cache[node][os.pkts[p].frame_id]]
    ELSE LET r == EvalInputsObject(node, 1, p, os, results)
         IN IF r.returned THEN [os |-> r.os, packet |-> r.packet]
            ELSE LET f == forward_object(r.os, node, r.packet, results)
                 IN [os |-> _set_cache_object(f.os, node, f.packet), packet |-> f.packet]

\* the loop "for sink in self.sinks" of run_once on a packet object
RECURSIVE SinkLoopObject(_, _, _, _)
SinkLoopObject(j, p, os, results) ==
    IF j > Len(sinks) THEN os
    ELSE LET r == _eval_node_chain_object(sinks[j], p, os, results)
         IN IF r.os.pkts[r.packet].drop_frame THEN SinkLoopObject(j + 1, p, r.os, results)
            ELSE SinkLoopObject(j + 1, p, WebSink_consume(r.os, sinks[j], r.packet), results)

(***************************************************************************)
(* SpecBranch: run_once ticks of examples/run_multi_stream.py; in each     *)
(* tick the YOLO model finds some boxes, or none, in the frame.            *)
(***************************************************************************)
InitBranch ==
    LET plan == [shape |-> "shipped", edges |-> FanOutEdges, sources |-> <<Src>>,
                 sinks |-> SinkList(2)]
        ns == NodesOf(plan)
        g == ConnectAll(NewNodes(ns), plan.edges)
        seen == _collect_graph(g.outs, plan.sources).seen
    IN /\ inputs = g.ins
       /\ outputs = g.outs
       /\ cache = [n \in ns |-> EmptyDict]
       /\ sources = plan.sources
       /\ sinks = plan.sinks
       /\ graph = SeqOf(seen)
       /\ order = _toposort(g.ins, g.outs, graph)
       /\ baseEdges = Len(plan.edges)
       /\ runner = "built"
       /\ collectPops = _collect_graph(g.outs, plan.sources).pops
       /\ shape = plan.shape
       /\ kind = [n \in ns |-> IF n = Src THEN "BouncingBallSource"
                                ELSE IF n = NodeA THEN "YoloNode"
                                ELSE IF n = NodeB THEN "DrawDetectionsNode"
                                ELSE "WebSink"]
       /\ dropOn = [n \in ns |-> {}]
       /\ stream = <<>>
       /\ failOn = NoFault /\ raised = NotRaised
       /\ consumed = [n \in Range(plan.sinks) |-> <<>>]
       /\ fwdLog = <<>>
       /\ progressed = TRUE
       /\ ticks = 0
       /\ emitted = <<>>
       /\ heap = <<>> /\ pkts = <<>>
       /\ NoPipeline /\ NoConf /\ NoFileSource /\ NoPreviews

\* Runner.run_once over the one source, which always has a next frame
RunOnceBranch(results) ==
    /\ runner = "built"
    /\ ticks < MaxTicks
    /\ LET np == BouncingBallSource_next_packet(Objects, ticks)
           os == SinkLoopObject(1, np.packet, np.os, results)
       IN /\ heap' = os.heap
          /\ pkts' = os.pkts
          /\ cache' = os.cache
          /\ consumed' = os.consumed
    /\ ticks' = ticks + 1
    /\ progressed' = TRUE
    /\ UNCHANGED <<graphVars, baseEdges, runnerVars, shape, kind, dropOn, stream, failOn,
                   raised, fwdLog, emitted>>
    /\ UNCHANGED <<pipeVars, callVars, obsVars, confVars, sourceVars, previews>>

NextBranch == \E results \in Results : RunOnceBranch(results)

SpecBranch == InitBranch /\ [][NextBranch]_vars

\* the packet object p is as the source made it: an empty detections list
\* and an image nothing was drawn on
AsProduced(p) == heap[pkts[p].detections] = <<>> /\ heap[pkts[p].image] = <<>>

\* C35: in the shipped fan-out graph the packet cached at the source, which
\* is the packet delivered to the raw sink, keeps the detections list and
\* the image it was produced with, whatever the processing branch does.
C35_RawBranchUntouched ==
    /\ \A f \in DOMAIN cache[Src] : AsProduced(cache[Src][f])
    /\ \A i \in DOMAIN consumed[Sink(1)] : AsProduced(consumed[Sink(1)][i].packet)

====
